---- MODULE Spec2Model ----
(***************************************************************************)
(* Collection-and-cache subsystem of the pain point collector backend:     *)
(*   CacheManager      backend/app/services/collectors/cache_manager.py    *)
(*   BaseCollector     backend/app/services/collectors/base_collector.py   *)
(*   DataCollectorService  backend/app/services/data_collector.py          *)
(*                                                                         *)
(* hashlib.md5 is taken to be injective on the strings it is given, so a   *)
(* digest is represented by the string that was hashed.  Strings are       *)
(* sequences of one-character strings.  datetime.utcnow() is the integer   *)
(* clock `now`, counted in hours (the unit of ttl_hours).                  *)
(***************************************************************************)
EXTENDS Integers, Sequences, FiniteSets, TLC

VARIABLES
    now,                      \* datetime.utcnow(), in hours
    stores,                   \* cache_type -> OrderedDict, as a sequence of entries (first = LRU end)
    processed_content_hashes, \* CacheManager.processed_content_hashes
    opCount,                  \* number of CacheManager calls made so far
    lastOp,                   \* the last CacheManager call: arguments, return value, evictions
    hashOrder,                \* the hashes now in the set, in the order they were inserted
    checked,                  \* inputs given to is_duplicate_content since the set was last empty
    prunedSince,              \* whether the set has been pruned since it was last empty
    dupCalls,                 \* number of is_duplicate_content calls made so far
    lastDup,                  \* the last is_duplicate_content call: input, return value, pruning
    \* BaseCollector (one collector instance)
    retry_attempts,           \* CollectorConfig.retry_attempts
    vercel_memory_limit,      \* CollectorConfig.vercel_memory_limit
    queries,                  \* the queries argument of the collect call in progress
    phase,                    \* where collect stands: "idle", "gather", "pause", "returned"
    batchStart,               \* the loop variable i of collect (0-based index of the batch)
    task,                     \* per query: its _collect_single_query coroutine
    all_results,              \* the local all_results of collect
    returned,                 \* the list the last collect call returned
    returnedAll,              \* every record returned by the collect calls so far
    collectCalls,             \* number of collect calls made so far
    sourceCalls,              \* number of _collect_raw_data calls made so far
    stats,                    \* BaseCollector._stats
    seen_hashes,              \* BaseCollector._seen_hashes
    \* DataCollectorService (its cache_manager is the CacheManager above)
    time_bound,               \* whether the global name time of data_collector.py is bound
    opc,                      \* where the service stands: "idle", "collect", "store", "finish"
    ocall,                    \* the call in progress: "none", "all", "source"
    cidx,                     \* position in self.collectors of the collector at work
    collectors,               \* per collector of self.collectors: its _seen_hashes
    pain_points,              \* the local pain_points: what collector.collect returned
    ppos,                     \* position of the store loop in pain_points
    stored_count,             \* the local stored_count
    collection_results,       \* the local collection_results
    all_pain_points,          \* the local all_pain_points
    collection_stats,         \* DataCollectorService._collection_stats
    outcome,                  \* how the last call on the service ended
    handed,                   \* the create_pain_point calls so far, with the verdict of the check
    persisted,                \* the rows of the pain_points table
    runs,                     \* number of calls on the service so far
    dbFailures,               \* number of create_pain_point calls that raised
    serviceCollects,          \* number of collector.collect calls the service has made
    total_errors,             \* total_errors of the running collect_all_sources
    held,                     \* the CollectionResult the caller got last, and the collector
                              \* whose _stats["errors"] list is its errors list (0: none)
    \* Around the classes
    callers,                  \* concurrent tasks that call is_duplicate_content
    global_cache,             \* the partitions of the CacheManager of get_cache_manager()
    clock,                    \* the event loop's time, in units of rate_limit_delay
    sample,                   \* a PainPointData whose quality_score is read, with the score
    keyPair,                  \* two generate_cache_key calls: their arguments and their keys
    fetches,                  \* the _collect_raw_data calls of a caching collector, in order
    pipeline,                 \* PipelineManager: the running pipeline and what it returned
    sched                     \* SchedulerService: is_running and its loop threads

cacheVars == <<now, stores, opCount, lastOp>>
dedupVars == <<processed_content_hashes, hashOrder, checked, prunedSince, dupCalls, lastDup>>
collVars == <<retry_attempts, vercel_memory_limit, queries, phase, batchStart, task, all_results,
              returned, returnedAll, collectCalls, sourceCalls, stats, seen_hashes>>
orchVars == <<time_bound, opc, ocall, cidx, collectors, pain_points, ppos, stored_count,
              collection_results, all_pain_points, collection_stats, outcome, handed, persisted,
              runs, dbFailures, serviceCollects, total_errors, held>>
envVars == <<callers, global_cache, clock, sample, keyPair, fetches, pipeline, sched>>
vars == <<now, stores, processed_content_hashes, opCount, lastOp, hashOrder, checked, prunedSince,
          dupCalls, lastDup, retry_attempts, vercel_memory_limit, queries, phase, batchStart, task,
          all_results, returned, returnedAll, collectCalls, sourceCalls, stats, seen_hashes,
          time_bound, opc, ocall, cidx, collectors, pain_points, ppos, stored_count,
          collection_results, all_pain_points, collection_stats, outcome, handed, persisted,
          runs, dbFailures, serviceCollects, total_errors, held, callers, global_cache,
          clock, sample, keyPair, fetches, pipeline, sched>>

----------------------------------------------------------------------------
(* Bounds of the model *)

MaxTime == 2          \* the clock runs over 0..MaxTime
MaxOps == 4           \* CacheManager calls per behaviour of Spec (one partition)
MaxPartOps == 2       \* CacheManager calls per behaviour of SpecParts (all partitions)
MaxAccess == 2        \* cap on access_count
HashCap == 3          \* size the seen-hash set may reach before it is pruned (10000 in the code)
MaxClears == 1        \* clear_cache calls per behaviour of SpecDedup
MaxRetry == 2         \* retry_attempts is drawn from 0..MaxRetry
MaxQueries == 4       \* a collect call is given 0..MaxQueries queries
MaxCollects == 2      \* collect calls per behaviour of SpecCollector
MaxSourceCalls == 3   \* _collect_raw_data calls per behaviour of SpecCollector
MaxBatchSourceCalls == 5  \* _collect_raw_data calls per behaviour of SpecBatches
MaxRuns == 2          \* calls on the service per behaviour of SpecService
MaxDbFailures == 1    \* create_pain_point calls that raise per behaviour of SpecService
MaxServiceCollects == 3  \* collector.collect calls per behaviour of SpecService
MaxSessionTime == 3    \* the clock runs over 0..MaxSessionTime in SpecSession
MaxLiveQueries == 2   \* queries of the collect call of SpecLive
MaxSchedulerCalls == 5 \* start and stop calls per behaviour of SpecScheduler
MaxPipelineRuns == 2  \* run_pipeline calls per behaviour of SpecPipeline
MaxIsolationOps == 3  \* CacheManager calls per behaviour of SpecIsolation
MaxFetches == 3       \* _collect_raw_data calls per behaviour of SpecFetch
MaxSweepOps == 3      \* set and cleanup_expired calls per behaviour of SpecSweep
MaxClock == 4         \* the event loop's clock runs over 0..MaxClock in SpecBackoff
MaxTitleLen == 60      \* longest title of a sample in SpecQuality
MaxContentLen == 300   \* longest content of a sample in SpecQuality
MaxKeywords == 6       \* most keywords of a sample in SpecQuality
MaxCallers == 5       \* tasks that call is_duplicate_content per behaviour of SpecTasks

(* Program constants *)

DefaultMaxMemoryMB == 800
TitlePrefixLen == 100
ContentPrefixLen == 200
VercelBatchSize == 3
HashTitleLen == 100
MinQualityScore == 3000
DbTitleLimit == 500
DbContentLimit == 5000
ApiResponseTtlHours == 2
NaverTtlHours == 4
rate_limit_delay == 1

----------------------------------------------------------------------------
(* Generic helpers *)

Min2(a, b) == IF a < b THEN a ELSE b

RECURSIVE SumSizes(_)
SumSizes(store) ==
    IF store = <<>> THEN 0 ELSE Head(store).size_bytes + SumSizes(Tail(store))

KeysOf(store) == {store[i].key : i \in 1..Len(store)}

IndexOf(store, key) == CHOOSE i \in 1..Len(store) : store[i].key = key

RemoveAt(store, i) == SubSeq(store, 1, i - 1) \o SubSeq(store, i + 1, Len(store))

----------------------------------------------------------------------------
(* CacheManager: configuration and inputs *)

max_memory_bytes == DefaultMaxMemoryMB * 1024 * 1024

PartitionBudget == max_memory_bytes \div 3

CacheTypes == {"general", "pain_points", "api_response"}

Keys == {"k1", "k2"}

\* A payload is described by its Python type and by the byte length of str(data).
Payloads ==
    { [kind |-> "str",  len |-> 93206755],     \* a third of the partition budget
      [kind |-> "list", len |-> 186413510],    \* two thirds
      [kind |-> "dict", len |-> 279620267],    \* one byte more than the budget
      [kind |-> "int",  len |-> 5] }           \* not str/dict/list: size_bytes stays 0

None == [kind |-> "None", len |-> 0]

TTLs == {0, 1}

\* CacheEntry.__post_init__
SizeBytes(data) == IF data.kind \in {"str", "dict", "list"} THEN data.len ELSE 0

CacheEntry(key, data, ts, ttl) ==
    [key |-> key, data |-> data, timestamp |-> ts, ttl_hours |-> ttl,
     access_count |-> 0, last_accessed |-> ts, size_bytes |-> SizeBytes(data)]

\* Mutant of is_expired: an entry already expires at timestamp + ttl.
is_expired_AtDeadline(entry, t) == t >= entry.timestamp + entry.ttl_hours

is_expired(entry, t) == t > entry.timestamp + entry.ttl_hours

touch(entry, t) ==
    [entry EXCEPT !.access_count = @ + 1, !.last_accessed = t]

_get_cache_store(cache_type) ==
    IF cache_type = "pain_points" THEN "pain_points"
    ELSE IF cache_type = "api_response" THEN "api_response"
    ELSE "general"

\* The while loop of _ensure_memory_capacity: pops the first entry of the
\* OrderedDict until the new entry fits or the store is empty.  Returns the
\* remaining store and the log of evictions (entry popped, store it was popped from).
RECURSIVE EvictLoop(_, _, _, _)
EvictLoop(store, current_size, required_bytes, log) ==
    IF current_size + required_bytes > PartitionBudget /\ store # <<>>
    THEN EvictLoop(Tail(store), current_size - Head(store).size_bytes, required_bytes,
                   Append(log, [entry |-> Head(store), from |-> store]))
    ELSE [store |-> store, evicted |-> log]

\* Mutant of _ensure_memory_capacity: the size of the new entry is left out of the test.
_ensure_memory_capacity_NoRequired(store, required_bytes) ==
    EvictLoop(store, SumSizes(store), 0, <<>>)

_ensure_memory_capacity(store, required_bytes) ==
    EvictLoop(store, SumSizes(store), required_bytes, <<>>)

\* Mutant of DictAssign: an entry larger than the partition budget is not stored.
DictAssign_RefusesOversize(store, key, entry) ==
    IF entry.size_bytes > PartitionBudget THEN store
    ELSE IF key \in KeysOf(store)
    THEN [store EXCEPT ![IndexOf(store, key)] = entry]
    ELSE Append(store, entry)

\* cache_store[key] = entry on an OrderedDict: a present key keeps its position.
DictAssign(store, key, entry) ==
    IF key \in KeysOf(store)
    THEN [store EXCEPT ![IndexOf(store, key)] = entry]
    ELSE Append(store, entry)

\* Mutant of move_to_end: the key keeps its position.
move_to_end_Stays(store, key) == store

move_to_end(store, key) ==
    LET i == IndexOf(store, key) IN Append(RemoveAt(store, i), store[i])

\* Mutant of DropExpired: the sweep stops after the first expired entry.
RECURSIVE DropExpired_FirstOnly(_, _)
DropExpired_FirstOnly(store, t) ==
    IF store = <<>> THEN <<>>
    ELSE IF is_expired(Head(store), t) THEN Tail(store)
         ELSE <<Head(store)>> \o DropExpired_FirstOnly(Tail(store), t)

RECURSIVE DropExpired(_, _)
DropExpired(store, t) ==
    IF store = <<>> THEN <<>>
    ELSE IF is_expired(Head(store), t) THEN DropExpired(Tail(store), t)
         ELSE <<Head(store)>> \o DropExpired(Tail(store), t)

NoOp == [op |-> "none", cache_type |-> "general", key |-> "", data |-> None,
         result |-> None, evicted |-> <<>>, before |-> <<>>, at |-> 0]

----------------------------------------------------------------------------
(* CacheManager: content deduplication *)

Rep(c, n) == [i \in 1..n |-> c]

\* Python's s[:n]
Prefix(s, n) == SubSeq(s, 1, Min2(n, Len(s)))

T100 == Rep("t", TitlePrefixLen)
C200 == Rep("c", ContentPrefixLen)

\* (title, content, source_url) triples given to is_duplicate_content.
DedupInputs ==
    { [title |-> <<"a">>,            content |-> <<"b">>,            source_url |-> <<>>],
      [title |-> <<"a", "b">>,       content |-> <<>>,               source_url |-> <<>>],
      [title |-> T100 \o <<"x">>,    content |-> <<"c">>,            source_url |-> <<"u">>],
      [title |-> T100 \o <<"y">>,    content |-> <<"c">>,            source_url |-> <<"u">>],
      [title |-> <<"a">>,            content |-> C200 \o <<"x">>,    source_url |-> <<>>],
      [title |-> <<"a">>,            content |-> C200 \o <<"y">>,    source_url |-> <<>>],
      [title |-> <<"b">>,            content |-> <<>>,               source_url |-> <<"u">>],
      [title |-> <<"b">>,            content |-> <<>>,               source_url |-> <<>>] }

\* Mutant of generate_content_hash: source_url is left out of the hashed string.
generate_content_hash_NoUrl(title, content, source_url) ==
    Prefix(title, TitlePrefixLen) \o Prefix(content, ContentPrefixLen)

\* md5 of f"{title[:100]}{content[:200]}{source_url}", represented by the hashed string.
generate_content_hash(title, content, source_url) ==
    Prefix(title, TitlePrefixLen) \o Prefix(content, ContentPrefixLen) \o source_url

\* Mutant of HashKeep: the slice keeps every hash of the list.
HashKeep_All == HashCap + 1

\* hash_list[-7500:], as a share of the cap of 10000
HashKeep == (3 * HashCap) \div 4

MaxDupCalls == HashCap + 2

NoDup == [op |-> "none", input |-> [title |-> <<>>, content |-> <<>>, source_url |-> <<>>],
          result |-> FALSE, checkedBefore |-> {}, prunedBefore |-> FALSE, pruned |-> FALSE,
          orderBefore |-> <<>>]

\* The elements of seq that are in S, in their order
RECURSIVE Restrict(_, _)
Restrict(seq, S) ==
    IF seq = <<>> THEN <<>>
    ELSE IF Head(seq) \in S THEN <<Head(seq)>> \o Restrict(Tail(seq), S)
         ELSE Restrict(Tail(seq), S)

\* is_duplicate_content.  list(set) lists the hashes in the order of the set's hash
\* table, which is unrelated to the order of insertion: the slice [-7500:] keeps
\* some HashKeep of them, any subset of that size.
IsDuplicateContent(inp) ==
    LET content_hash == generate_content_hash(inp.title, inp.content, inp.source_url)
        added == processed_content_hashes \cup {content_hash}
        order == Append(hashOrder, content_hash)
    IN /\ dupCalls' = dupCalls + 1
       /\ UNCHANGED cacheVars
       /\ checked' = checked \cup {inp}
       /\ IF content_hash \in processed_content_hashes
          THEN /\ lastDup' = [op |-> "is_duplicate_content", input |-> inp, result |-> TRUE,
                              checkedBefore |-> checked, prunedBefore |-> prunedSince,
                              pruned |-> FALSE, orderBefore |-> hashOrder]
               /\ UNCHANGED <<processed_content_hashes, hashOrder, prunedSince>>
          ELSE IF Cardinality(added) > HashCap
               THEN \E kept \in SUBSET added :
                       /\ Cardinality(kept) = Min2(HashKeep, Cardinality(added))
                       /\ processed_content_hashes' = kept
                       /\ hashOrder' = Restrict(order, kept)
                       /\ prunedSince' = TRUE
                       /\ lastDup' = [op |-> "is_duplicate_content", input |-> inp, result |-> FALSE,
                                      checkedBefore |-> checked, prunedBefore |-> prunedSince,
                                      pruned |-> TRUE, orderBefore |-> order]
               ELSE /\ processed_content_hashes' = added
                    /\ hashOrder' = order
                    /\ UNCHANGED prunedSince
                    /\ lastDup' = [op |-> "is_duplicate_content", input |-> inp, result |-> FALSE,
                                   checkedBefore |-> checked, prunedBefore |-> prunedSince,
                                   pruned |-> FALSE, orderBefore |-> order]

----------------------------------------------------------------------------
(* CacheManager: operations *)

Tick ==
    /\ now < MaxTime
    /\ now' = now + 1
    /\ UNCHANGED <<stores, opCount, lastOp>>
    /\ UNCHANGED dedupVars

Set(key, data, ttl_hours, cache_type) ==
    LET ct == _get_cache_store(cache_type)
        entry == CacheEntry(key, data, now, ttl_hours)
        r == _ensure_memory_capacity(stores[ct], entry.size_bytes)
    IN /\ stores' = [stores EXCEPT ![ct] = DictAssign(r.store, key, entry)]
       /\ lastOp' = [op |-> "set", cache_type |-> ct, key |-> key, data |-> data,
                     result |-> None, evicted |-> r.evicted, before |-> stores[ct], at |-> now]
       /\ opCount' = opCount + 1
       /\ UNCHANGED now
       /\ UNCHANGED dedupVars

Get(key, cache_type) ==
    LET ct == _get_cache_store(cache_type)
        store == stores[ct]
    IN /\ opCount' = opCount + 1
       /\ UNCHANGED now
       /\ UNCHANGED dedupVars
       /\ IF key \notin KeysOf(store)
          THEN /\ UNCHANGED stores
               /\ lastOp' = [op |-> "get", cache_type |-> ct, key |-> key, data |-> None,
                             result |-> None, evicted |-> <<>>, before |-> store, at |-> now]
          ELSE LET i == IndexOf(store, key)
                   entry == store[i]
               IN IF is_expired(entry, now)
                  THEN /\ stores' = [stores EXCEPT ![ct] = RemoveAt(store, i)]
                       /\ lastOp' = [op |-> "get", cache_type |-> ct, key |-> key, data |-> None,
                                     result |-> None, evicted |-> <<>>, before |-> store, at |-> now]
                  ELSE /\ entry.access_count < MaxAccess
                       /\ stores' = [stores EXCEPT ![ct] =
                                        move_to_end([store EXCEPT ![i] = touch(entry, now)], key)]
                       /\ lastOp' = [op |-> "get", cache_type |-> ct, key |-> key, data |-> None,
                                     result |-> entry.data, evicted |-> <<>>, before |-> store, at |-> now]

Delete(key, cache_type) ==
    LET ct == _get_cache_store(cache_type)
        store == stores[ct]
    IN /\ opCount' = opCount + 1
       /\ stores' = [stores EXCEPT ![ct] =
                        IF key \in KeysOf(store) THEN RemoveAt(store, IndexOf(store, key)) ELSE store]
       /\ lastOp' = [op |-> "delete", cache_type |-> ct, key |-> key, data |-> None,
                     result |-> None, evicted |-> <<>>, before |-> store, at |-> now]
       /\ UNCHANGED now
       /\ UNCHANGED dedupVars

CleanupExpired ==
    /\ opCount' = opCount + 1
    /\ stores' = [ct \in CacheTypes |-> DropExpired(stores[ct], now)]
    /\ lastOp' = [op |-> "cleanup_expired", cache_type |-> "all", key |-> "", data |-> None,
                  result |-> None,
                  evicted |-> <<>>,
                  before |-> stores["general"] \o stores["pain_points"] \o stores["api_response"],
                  at |-> now]
    /\ UNCHANGED now
    /\ UNCHANGED dedupVars

\* Mutant of ClearCache: every partition is cleared, whatever cache_type is.
ClearCache_Everything(cache_type) ==
    /\ opCount' = opCount + 1
    /\ lastOp' = [op |-> "clear_cache", cache_type |-> cache_type, key |-> "", data |-> None,
                  result |-> None, evicted |-> <<>>, before |-> <<>>, at |-> now]
    /\ UNCHANGED now
    /\ stores' = [ct \in CacheTypes |-> <<>>]
    /\ UNCHANGED dedupVars

ClearCache(cache_type) ==
    /\ opCount' = opCount + 1
    /\ lastOp' = [op |-> "clear_cache", cache_type |-> cache_type, key |-> "", data |-> None,
                  result |-> None, evicted |-> <<>>, before |-> <<>>, at |-> now]
    /\ UNCHANGED now
    /\ IF cache_type = "all"
       THEN /\ stores' = [ct \in CacheTypes |-> <<>>]
            /\ processed_content_hashes' = {}
            /\ hashOrder' = <<>>
            /\ checked' = {}
            /\ prunedSince' = FALSE
            /\ lastDup' = NoDup
            /\ UNCHANGED dupCalls
       ELSE /\ stores' = [stores EXCEPT ![_get_cache_store(cache_type)] = <<>>]
            /\ UNCHANGED dedupVars

----------------------------------------------------------------------------
(* BaseCollector: records *)

CollectorName == <<"r", "e", "d", "d", "i", "t">>

\* Raw items as a source returns them.  title and content are the texts that
\* _clean_text makes of the item; nkeywords is the number of keywords that
\* _extract_keywords finds in title + " " + content and pain the value of
\* _is_pain_point_content on it; confidence is in thousandths.
Good ==
    [title |-> Rep("p", 20), content |-> Rep("q", 30), subsource |-> <<"h">>,
     source_url |-> <<"u">>, confidence |-> 500, nkeywords |-> 5, pain |-> TRUE]
GoodOtherSub == [Good EXCEPT !.subsource = <<"n">>]
GoodOtherBody == [Good EXCEPT !.content = Rep("z", 30)]
Poor ==
    [title |-> <<"a">>, content |-> <<"b">>, subsource |-> <<"h">>,
     source_url |-> <<"v">>, confidence |-> 500, nkeywords |-> 0, pain |-> TRUE]
Calm ==
    [title |-> Rep("s", 20), content |-> Rep("q", 30), subsource |-> <<"h">>,
     source_url |-> <<"w">>, confidence |-> 500, nkeywords |-> 5, pain |-> FALSE]
Blank ==
    [title |-> <<>>, content |-> <<>>, subsource |-> <<"h">>,
     source_url |-> <<"x">>, confidence |-> 500, nkeywords |-> 0, pain |-> FALSE]

\* What one successful _collect_raw_data call may return
RawLists == { <<>>, <<Poor, Calm, Blank, Good, GoodOtherSub, GoodOtherBody>> }

\* _process_raw_item of the collector called name: None (valid = FALSE) when
\* title and content are both empty
_process_raw_item(name, item) ==
    [valid |-> ~(item.title = <<>> /\ item.content = <<>>),
     title |-> item.title, content |-> item.content,
     source |-> name \o <<"-">> \o item.subsource,
     source_url |-> item.source_url, confidence |-> item.confidence,
     nkeywords |-> item.nkeywords, pain |-> item.pain]

\* PainPointData.content_hash: md5 of f"{title[:100]}{source}{source_url}"
content_hash(p) == Prefix(p.title, HashTitleLen) \o p.source \o p.source_url

\* Mutant of quality_score: the confidence term is subtracted.
quality_score_ConfidencePenalty(p) ==
    Min2(Len(p.title), 50) * 60 + Min2(Len(p.content), 200) * 20
        + Min2(p.nkeywords, 5) * 400 - p.confidence

\* PainPointData.quality_score, times 10000:
\* min(len(title)/50, 1)*0.3 + min(len(content)/200, 1)*0.4 + min(len(keywords)/5, 1)*0.2 + confidence*0.1
quality_score(p) ==
    Min2(Len(p.title), 50) * 60 + Min2(Len(p.content), 200) * 20
        + Min2(p.nkeywords, 5) * 400 + p.confidence

\* Mutant of _should_include: the hash of an accepted record is not remembered.
_should_include_Forgets(p, seen, st) ==
    IF content_hash(p) \in seen
    THEN [include |-> FALSE, seen |-> seen, stats |-> [st EXCEPT !.duplicates_filtered = @ + 1]]
    ELSE IF quality_score(p) < MinQualityScore
    THEN [include |-> FALSE, seen |-> seen, stats |-> [st EXCEPT !.quality_filtered = @ + 1]]
    ELSE IF ~p.pain
    THEN [include |-> FALSE, seen |-> seen, stats |-> [st EXCEPT !.quality_filtered = @ + 1]]
    ELSE [include |-> TRUE, seen |-> seen, stats |-> st]

\* _should_include: the verdict, _seen_hashes and _stats after the call
_should_include(p, seen, st) ==
    IF content_hash(p) \in seen
    THEN [include |-> FALSE, seen |-> seen, stats |-> [st EXCEPT !.duplicates_filtered = @ + 1]]
    ELSE IF quality_score(p) < MinQualityScore
    THEN [include |-> FALSE, seen |-> seen, stats |-> [st EXCEPT !.quality_filtered = @ + 1]]
    ELSE IF ~p.pain
    THEN [include |-> FALSE, seen |-> seen, stats |-> [st EXCEPT !.quality_filtered = @ + 1]]
    ELSE [include |-> TRUE, seen |-> seen \cup {content_hash(p)}, stats |-> st]

\* The loop over raw_data in _collect_single_query
RECURSIVE ProcessItems(_, _, _, _, _)
ProcessItems(name, raw, seen, st, acc) ==
    IF raw = <<>> THEN [results |-> acc, seen |-> seen, stats |-> st]
    ELSE LET p == _process_raw_item(name, Head(raw))
         IN IF ~p.valid THEN ProcessItems(name, Tail(raw), seen, st, acc)
            ELSE LET r == _should_include(p, seen, st)
                 IN ProcessItems(name, Tail(raw), r.seen, r.stats,
                                 IF r.include THEN Append(acc, p) ELSE acc)

----------------------------------------------------------------------------
(* BaseCollector: collect and _collect_single_query *)

\* starts and fails hold the times at which the attempts of the query started
\* and failed, waits the delays given to asyncio.sleep after the failures.
NoTask == [pc |-> "none", attempt |-> 0, result |-> <<>>, attempts |-> 0, failures |-> 0,
           succeeded |-> FALSE, starts |-> <<>>, fails |-> <<>>, waits |-> <<>>]

\* Mutant of BackoffDelay: the delay does not grow with the attempt.
BackoffDelay_Flat(attempt) == rate_limit_delay * 2

\* self.config.rate_limit_delay * (2 ** attempt)
BackoffDelay(attempt) == rate_limit_delay * (2 ^ attempt)

\* Mutant of BatchSizeFor: the queries are never split into batches.
BatchSizeFor_Unbatched(n) == n

\* batch_size = 3 if self.config.vercel_memory_limit else len(queries)
BatchSizeFor(n) == IF vercel_memory_limit THEN VercelBatchSize ELSE n

batch_size == BatchSizeFor(Len(queries))

\* queries[i:i + batch_size], as positions 1..Len(queries)
BatchOf(i) == {q \in 1..Len(queries) : i < q /\ q <= i + batch_size}

\* Mutant of BatchResults: one failed query discards the results of its batch.
RECURSIVE BatchResults_AbortOnFailure(_, _)
BatchResults_AbortOnFailure(q, last) ==
    IF q > last \/ \E f \in q..last : ~task[f].succeeded THEN <<>>
    ELSE task[q].result \o BatchResults_AbortOnFailure(q + 1, last)

\* The lists of batch_results, extended into all_results in the order of the batch
RECURSIVE BatchResults(_, _)
BatchResults(q, last) ==
    IF q > last THEN <<>> ELSE task[q].result \o BatchResults(q + 1, last)

\* The for loop of collect moves on from the batch at i: the next batch is
\* created, or the loop is over and collect returns all_results.
Advance(i, results) ==
    /\ all_results' = results
    /\ IF i + batch_size < Len(queries)
       THEN /\ batchStart' = i + batch_size
            /\ phase' = "gather"
            /\ task' = [q \in 1..Len(queries) |->
                          IF i + batch_size < q /\ q <= i + 2 * batch_size
                          THEN [NoTask EXCEPT !.pc = "created"] ELSE task[q]]
            /\ UNCHANGED <<returned, returnedAll>>
       ELSE /\ phase' = "returned"
            /\ returned' = results
            /\ returnedAll' = returnedAll \o results
            /\ UNCHANGED <<batchStart, task>>

\* collect(queries, limit_per_query) is called with n queries.
Collect(n) ==
    /\ phase \in {"idle", "returned"}
    /\ collectCalls' = collectCalls + 1
    /\ queries' = [q \in 1..n |-> q]
    /\ all_results' = <<>>
    /\ batchStart' = 0
    /\ UNCHANGED <<retry_attempts, vercel_memory_limit, seen_hashes, sourceCalls>>
    /\ IF n = 0
       THEN /\ phase' = "returned"
            /\ returned' = <<>>
            /\ task' = <<>>
            /\ UNCHANGED returnedAll
            \* range(0, 0, 0) raises ValueError, which collect catches and records
            /\ stats' = IF vercel_memory_limit THEN stats
                        ELSE [stats EXCEPT !.errors = Append(@, [kind |-> "collect", query |-> 0])]
       ELSE /\ phase' = "gather"
            /\ task' = [q \in 1..n |->
                          IF q <= BatchSizeFor(n)
                          THEN [NoTask EXCEPT !.pc = "created"] ELSE NoTask]
            /\ UNCHANGED <<returned, returnedAll, stats>>

\* A coroutine of the batch starts to run: for attempt in range(retry_attempts)
TaskRun(q) ==
    /\ phase = "gather"
    /\ task[q].pc = "created"
    /\ task' = [task EXCEPT ![q] =
                   IF retry_attempts > 0
                   THEN [@ EXCEPT !.pc = "in_flight", !.attempts = 1, !.starts = <<clock>>]
                   ELSE [@ EXCEPT !.pc = "done"]]
    /\ sourceCalls' = IF retry_attempts > 0 THEN sourceCalls + 1 ELSE sourceCalls
    /\ UNCHANGED <<retry_attempts, vercel_memory_limit, queries, phase, batchStart, all_results,
                   returned, returnedAll, collectCalls, stats, seen_hashes>>

\* Mutant of SourceReturns: the processed results are kept but the loop over
\* the attempts goes on after a successful attempt.
SourceReturns_NoReturn(q, raw_data) ==
    LET r == ProcessItems(CollectorName, raw_data, seen_hashes, stats, <<>>)
    IN /\ phase = "gather"
       /\ task[q].pc = "in_flight"
       /\ seen_hashes' = r.seen
       /\ stats' = [r.stats EXCEPT !.total_processed = @ + Len(raw_data), !.api_calls = @ + 1]
       /\ task' = [task EXCEPT ![q] = [@ EXCEPT !.pc = "backoff", !.result = r.results,
                                                !.succeeded = TRUE]]
       /\ UNCHANGED <<retry_attempts, vercel_memory_limit, queries, phase, batchStart,
                      all_results, returned, returnedAll, collectCalls, sourceCalls>>

\* _collect_raw_data returns raw_data within the timeout.
SourceReturns(q, raw_data) ==
    LET r == ProcessItems(CollectorName, raw_data, seen_hashes, stats, <<>>)
    IN /\ phase = "gather"
       /\ task[q].pc = "in_flight"
       /\ seen_hashes' = r.seen
       /\ stats' = [r.stats EXCEPT !.total_processed = @ + Len(raw_data), !.api_calls = @ + 1]
       /\ task' = [task EXCEPT ![q] = [@ EXCEPT !.pc = "done", !.result = r.results,
                                                !.succeeded = TRUE]]
       /\ UNCHANGED <<retry_attempts, vercel_memory_limit, queries, phase, batchStart,
                      all_results, returned, returnedAll, collectCalls, sourceCalls>>

\* _collect_raw_data times out (kind = "timeout") or raises (kind = "exception").
SourceFails(q, kind) ==
    /\ phase = "gather"
    /\ task[q].pc = "in_flight"
    /\ stats' = IF task[q].attempt = retry_attempts - 1
                THEN [stats EXCEPT !.errors = Append(@, [kind |-> kind, query |-> q])]
                ELSE stats
    /\ task' = [task EXCEPT ![q] = [@ EXCEPT !.pc = "backoff", !.failures = @ + 1,
                                             !.fails = Append(@, clock),
                                             !.waits = Append(@, BackoffDelay(task[q].attempt))]]
    /\ UNCHANGED <<retry_attempts, vercel_memory_limit, queries, phase, batchStart, all_results,
                   returned, returnedAll, collectCalls, sourceCalls, seen_hashes>>

\* asyncio.sleep(rate_limit_delay * 2 ** attempt) is over: next iteration, or return []
BackoffEnds(q) ==
    /\ phase = "gather"
    /\ task[q].pc = "backoff"
    /\ task' = [task EXCEPT ![q] =
                   IF task[q].attempt + 1 < retry_attempts
                   THEN [@ EXCEPT !.pc = "in_flight", !.attempt = @ + 1, !.attempts = @ + 1,
                                  !.starts = Append(@, clock)]
                   ELSE [@ EXCEPT !.pc = "done", !.attempt = @ + 1, !.result = <<>>]]
    /\ sourceCalls' = IF task[q].attempt + 1 < retry_attempts THEN sourceCalls + 1 ELSE sourceCalls
    /\ UNCHANGED <<retry_attempts, vercel_memory_limit, queries, phase, batchStart, all_results,
                   returned, returnedAll, collectCalls, stats, seen_hashes>>

\* asyncio.gather returns: every coroutine of the batch is done.
GatherReturns ==
    LET batch == BatchOf(batchStart)
        first == batchStart + 1
        last == Min2(batchStart + batch_size, Len(queries))
        results == all_results \o BatchResults(first, last)
    IN /\ phase = "gather"
       /\ \A q \in batch : task[q].pc = "done"
       /\ UNCHANGED <<retry_attempts, vercel_memory_limit, queries, collectCalls, sourceCalls, stats,
                      seen_hashes>>
       /\ IF vercel_memory_limit
          THEN /\ phase' = "pause"
               /\ all_results' = results
               /\ UNCHANGED <<batchStart, task, returned, returnedAll>>
          ELSE Advance(batchStart, results)

\* asyncio.sleep(0.1) after a batch is over.
PauseEnds ==
    /\ phase = "pause"
    /\ UNCHANGED <<retry_attempts, vercel_memory_limit, queries, collectCalls, sourceCalls, stats,
                   seen_hashes>>
    /\ Advance(batchStart, all_results)

----------------------------------------------------------------------------
(* DataCollectorService *)

\* self.collectors, in the order of the dict
CollectorOrder ==
    << CollectorName, <<"n", "a", "v", "e", "r">>, <<"a", "l", "t">> >>

News1 == [Good EXCEPT !.title = Rep("m", 20), !.source_url = <<"y">>]
News2 == [Good EXCEPT !.title = Rep("n", 20), !.source_url = <<"z">>]
News3 == [Good EXCEPT !.title = Rep("o", 20), !.source_url = <<"z">>]

\* The raw items one collect call of a collector may work through, in the
\* order in which it processes them
ServiceRawLists == RawLists \cup { <<News1, News2>>, <<News3>> }

ZeroStats == [total_processed |-> 0, duplicates_filtered |-> 0, quality_filtered |-> 0,
              api_calls |-> 0, cache_hits |-> 0, errors |-> <<>>]

\* PainPointData.to_dict: the row given to create_pain_point
to_dict(p) ==
    [title |-> Prefix(p.title, DbTitleLimit), content |-> Prefix(p.content, DbContentLimit),
     source |-> p.source, source_url |-> p.source_url, confidence |-> p.confidence,
     quality_score |-> quality_score(p), content_hash |-> content_hash(p)]

RECURSIVE SumQuality(_)
SumQuality(ps) == IF ps = <<>> THEN 0 ELSE quality_score(Head(ps)) + SumQuality(Tail(ps))

RECURSIVE SumField(_, _)
SumField(rs, f) == IF rs = <<>> THEN 0 ELSE Head(rs)[f] + SumField(Tail(rs), f)

NoOutcome == [kind |-> "none"]

\* The name time is not bound in data_collector.py: time.time() raises NameError.
NameError == [kind |-> "raised", error |-> "NameError"]

CollectionResult(source, collected_count, total_processed, duplicates_filtered, errors) ==
    [kind |-> "result", source |-> source, collected_count |-> collected_count,
     total_processed |-> total_processed, duplicates_filtered |-> duplicates_filtered,
     errors |-> errors]

\* Mutant of ShouldStore: a record is stored whatever the verdict of the check.
ShouldStore_Always(is_duplicate) == TRUE

\* if not await self.cache_manager.is_duplicate_content(...)
ShouldStore(is_duplicate) == ~is_duplicate

\* What the caller holds after a call returned result: the object, and the
\* collector (0: none) whose _stats["errors"] list the errors field refers to.
NoHeld == [result |-> NoOutcome, errors_of |-> 0]
Held(result, c) == [result |-> result, errors_of |-> c]

\* collect_all_sources is called.
CollectAllSources ==
    /\ opc = "idle"
    /\ runs' = runs + 1
    /\ UNCHANGED <<time_bound, collectors, pain_points, ppos, stored_count, handed, persisted,
                   dbFailures, serviceCollects, held>>
    /\ IF ~time_bound
       THEN /\ outcome' = NameError
            /\ UNCHANGED <<opc, ocall, cidx, collection_results, all_pain_points, collection_stats,
                           total_errors>>
       ELSE /\ collection_stats' = [collection_stats EXCEPT !.total_sessions = @ + 1]
            /\ collection_results' = <<>>
            /\ all_pain_points' = <<>>
            /\ total_errors' = <<>>
            /\ ocall' = "all"
            /\ cidx' = 1
            /\ opc' = "collect"
            /\ outcome' = NoOutcome

\* collect_from_source(source) is called; position 0 stands for an unknown source.
CollectFromSource(source) ==
    /\ opc = "idle"
    /\ runs' = runs + 1
    /\ UNCHANGED <<time_bound, collectors, pain_points, ppos, stored_count, handed, persisted,
                   dbFailures, serviceCollects, collection_results, all_pain_points,
                   collection_stats, total_errors>>
    /\ IF source = 0
       THEN /\ outcome' = CollectionResult(<<"?">>, 0, 0, 0, <<"Unknown source">>)
            /\ held' = Held(outcome', 0)
            /\ UNCHANGED <<opc, ocall, cidx>>
       ELSE IF ~time_bound
       THEN /\ outcome' = NameError
            /\ UNCHANGED <<opc, ocall, cidx, held>>
       ELSE /\ ocall' = "source"
            /\ cidx' = source
            /\ opc' = "collect"
            /\ outcome' = NoOutcome
            /\ UNCHANGED held

\* collector.collect(queries, limit) returns what the collector accepted of raw;
\* failed: a query of the call exhausted its attempts, which the collector
\* noted in its _stats["errors"].
CollectorReturns(raw, failed) ==
    LET r == ProcessItems(CollectorOrder[cidx], raw, collectors[cidx].seen_hashes, ZeroStats, <<>>)
    IN /\ opc = "collect"
       /\ collectors' = [collectors EXCEPT ![cidx] =
                          [seen_hashes |-> r.seen,
                           errors |-> IF failed THEN Append(@.errors, [run |-> runs]) ELSE @.errors]]
       /\ pain_points' = r.results
       /\ ppos' = 1
       /\ stored_count' = 0
       /\ opc' = "store"
       /\ serviceCollects' = serviceCollects + 1
       /\ UNCHANGED <<time_bound, ocall, cidx, collection_results, all_pain_points,
                      collection_stats, outcome, handed, persisted, runs, dbFailures,
                      total_errors, held>>

\* Mutant of Continue: the loop over the collectors ends at the failure.
Continue_Break(i) == [opc |-> "finish", cidx |-> i]

\* continue: the loop goes on with the collector after position i, if any.
Continue(i) ==
    IF i < Len(CollectorOrder) THEN [opc |-> "collect", cidx |-> i + 1]
    ELSE [opc |-> "finish", cidx |-> i]

\* collector.collect(queries, limit) raises an Exception.  collect_all_sources
\* notes it in total_errors and continues; collect_from_source returns a
\* CollectionResult with the error.
CollectorRaises ==
    /\ opc = "collect"
    /\ serviceCollects' = serviceCollects + 1
    /\ UNCHANGED <<time_bound, ocall, collectors, pain_points, ppos, stored_count,
                   collection_results, all_pain_points, collection_stats, handed, persisted,
                   runs, dbFailures>>
    /\ IF ocall = "all"
       THEN /\ total_errors' = Append(total_errors, CollectorOrder[cidx])
            /\ opc' = Continue(cidx).opc
            /\ cidx' = Continue(cidx).cidx
            /\ UNCHANGED <<outcome, held>>
       ELSE /\ outcome' = CollectionResult(CollectorOrder[cidx], 0, 0, 0, <<CollectorOrder[cidx]>>)
            /\ opc' = "idle"
            /\ held' = Held(outcome', 0)
            /\ UNCHANGED <<cidx, total_errors>>

\* One turn of the store loop: the check, and create_pain_point, which inserts
\* the row (db_ok) or raises; the exception is caught and logged.
StoreRecord(db_ok) ==
    LET p == pain_points[ppos]
    IN /\ opc = "store"
       /\ ppos <= Len(pain_points)
       /\ IsDuplicateContent([title |-> p.title, content |-> p.content, source_url |-> p.source_url])
       /\ ppos' = ppos + 1
       /\ IF ShouldStore(lastDup'.result)
          THEN /\ handed' = Append(handed, [row |-> to_dict(p), is_duplicate |-> lastDup'.result])
               /\ IF db_ok
                  THEN /\ persisted' = Append(persisted, to_dict(p))
                       /\ stored_count' = stored_count + 1
                       /\ UNCHANGED dbFailures
                  ELSE /\ dbFailures' = dbFailures + 1
                       /\ UNCHANGED <<persisted, stored_count>>
          ELSE /\ db_ok
               /\ UNCHANGED <<handed, persisted, stored_count, dbFailures>>
       /\ UNCHANGED <<time_bound, opc, ocall, cidx, collectors, pain_points, collection_results,
                      all_pain_points, collection_stats, outcome, runs, serviceCollects,
                      total_errors, held>>

\* The store loop is over: the CollectionResult of the collector is created.
ResultCreated ==
    LET result == CollectionResult(CollectorOrder[cidx], stored_count, Len(pain_points),
                                   Len(pain_points) - stored_count,
                                   collectors[cidx].errors)
    IN /\ opc = "store"
       /\ ppos > Len(pain_points)
       /\ UNCHANGED <<time_bound, collectors, pain_points, ppos, stored_count, collection_stats,
                      handed, persisted, runs, dbFailures, serviceCollects, ocall, total_errors>>
       /\ IF ocall = "source"
          THEN /\ outcome' = result
               /\ held' = Held(result, cidx)
               /\ opc' = "idle"
               /\ UNCHANGED <<cidx, collection_results, all_pain_points>>
          ELSE /\ collection_results' = Append(collection_results, result)
               /\ all_pain_points' = all_pain_points \o pain_points
               /\ UNCHANGED <<outcome, held>>
               /\ IF cidx < Len(CollectorOrder)
                  THEN cidx' = cidx + 1 /\ opc' = "collect"
                  ELSE opc' = "finish" /\ UNCHANGED cidx

\* After the loop over the collectors: totals, _collection_stats, cleanup_expired
\* and the CollectionResult of the session.
SessionCompleted ==
    LET total_collected == SumField(collection_results, "collected_count")
        total_processed == SumField(collection_results, "total_processed")
        avg_quality == SumQuality(all_pain_points) \div Len(all_pain_points)
    IN /\ opc = "finish"
       /\ collection_stats' =
             IF total_collected > 0
             THEN [collection_stats EXCEPT
                      !.successful_sessions = @ + 1,
                      !.total_collected = @ + total_collected,
                      !.average_quality_score = (@ + avg_quality) \div 2]
             ELSE collection_stats
       /\ stores' = [ct \in CacheTypes |-> DropExpired(stores[ct], now)]
       /\ outcome' = CollectionResult(<<"a", "l", "l">>, total_collected, total_processed,
                                      SumField(collection_results, "duplicates_filtered"),
                                      total_errors)
       /\ held' = Held(outcome', 0)
       /\ opc' = "idle"
       /\ UNCHANGED <<now, opCount, lastOp>>
       /\ UNCHANGED dedupVars
       /\ UNCHANGED <<time_bound, ocall, cidx, collectors, pain_points, ppos, stored_count,
                      collection_results, all_pain_points, handed, persisted, runs, dbFailures,
                      serviceCollects, total_errors>>

----------------------------------------------------------------------------
(* Specifications of the cache: any sequence of CacheManager calls *)

\* CacheManager.__init__
InitCache ==
    /\ now = 0
    /\ stores = [ct \in CacheTypes |-> <<>>]
    /\ processed_content_hashes = {}
    /\ opCount = 0
    /\ lastOp = NoOp
    /\ hashOrder = <<>>
    /\ checked = {}
    /\ prunedSince = FALSE
    /\ dupCalls = 0
    /\ lastDup = NoDup

\* BaseCollector.__init__ with a CollectorConfig
InitCollector(retries, vercel) ==
    /\ retry_attempts = retries
    /\ vercel_memory_limit = vercel
    /\ queries = <<>>
    /\ phase = "idle"
    /\ batchStart = 0
    /\ task = <<>>
    /\ all_results = <<>>
    /\ returned = <<>>
    /\ returnedAll = <<>>
    /\ collectCalls = 0
    /\ sourceCalls = 0
    /\ stats = [total_processed |-> 0, duplicates_filtered |-> 0, quality_filtered |-> 0,
                api_calls |-> 0, cache_hits |-> 0, errors |-> <<>>]
    /\ seen_hashes = {}

\* DataCollectorService.__init__
InitService(bound) ==
    /\ time_bound = bound
    /\ opc = "idle"
    /\ ocall = "none"
    /\ cidx = 1
    /\ collectors = [c \in 1..Len(CollectorOrder) |-> [seen_hashes |-> {}, errors |-> <<>>]]
    /\ held = NoHeld
    /\ pain_points = <<>>
    /\ ppos = 1
    /\ stored_count = 0
    /\ collection_results = <<>>
    /\ all_pain_points = <<>>
    /\ collection_stats = [total_sessions |-> 0, successful_sessions |-> 0, total_collected |-> 0,
                           average_quality_score |-> 0]
    /\ outcome = NoOutcome
    /\ handed = <<>>
    /\ persisted = <<>>
    /\ runs = 0
    /\ dbFailures = 0
    /\ serviceCollects = 0
    /\ total_errors = <<>>

\* Nothing runs beside the classes, and the CacheManager of get_cache_manager()
\* is as CacheManager.__init__ leaves it.
\* PipelineManager before its first run_pipeline call
NoPipeline ==
    [pc |-> "idle", stage |-> "initialized", stages |-> <<>>, end_time |-> FALSE, errors |-> 0,
     total_collected |-> 0,
     config |-> [enable_ai_analysis |-> FALSE, generate_ideas |-> FALSE, send_telegram |-> FALSE],
     runs |-> 0]

\* SchedulerService.__init__: running = False, thread = None (0); threads are
\* the loop threads created so far, each at a place of _run_scheduler.
NoScheduler == [running |-> FALSE, thread |-> 0, threads |-> <<>>, pc |-> "idle", calls |-> 0]

InitEnv ==
    /\ callers = <<>>
    /\ global_cache = [ct \in CacheTypes |-> <<>>]
    /\ clock = 0
    /\ sample = [title_len |-> 0, content_len |-> 0, nkeywords |-> 0, confidence |-> 0, score |-> 0]
    /\ keyPair = [called |-> FALSE]
    /\ fetches = <<>>
    /\ pipeline = NoPipeline
    /\ sched = NoScheduler

Init ==
    /\ InitCache
    /\ InitCollector(3, TRUE)
    /\ InitService(FALSE)
    /\ InitEnv

CacheCall(types) ==
    \/ \E k \in Keys, d \in Payloads, t \in TTLs, ct \in types : Set(k, d, t, ct)
    \/ \E k \in Keys, ct \in types : Get(k, ct)
    \/ \E k \in Keys, ct \in types : Delete(k, ct)
    \/ CleanupExpired
    \/ \E ct \in types \cup {"all"} : ClearCache(ct)

\* Calls on the default partition, MaxOps deep.
Next ==
    \/ Tick /\ UNCHANGED <<collVars, orchVars, envVars>>
    \/ opCount < MaxOps /\ CacheCall({"general"}) /\ UNCHANGED <<collVars, orchVars, envVars>>

Spec == Init /\ [][Next]_vars

\* Calls on all three partitions, MaxPartOps deep.
NextParts ==
    \/ Tick /\ UNCHANGED <<collVars, orchVars, envVars>>
    \/ opCount < MaxPartOps /\ CacheCall(CacheTypes) /\ UNCHANGED <<collVars, orchVars, envVars>>

SpecParts == Init /\ [][NextParts]_vars

\* Any sequence of is_duplicate_content calls, with clear_cache("all") in between.
NextDedup ==
    \/ dupCalls < MaxDupCalls /\ (\E inp \in DedupInputs : IsDuplicateContent(inp)) /\ UNCHANGED <<collVars, orchVars, envVars>>
    \/ opCount < MaxClears /\ ClearCache("all") /\ UNCHANGED <<collVars, orchVars, envVars>>

SpecDedup == Init /\ [][NextDedup]_vars

----------------------------------------------------------------------------
(* Specification of a collector: collect calls on one BaseCollector *)

InitColl ==
    /\ InitCache
    /\ \E r \in 0..MaxRetry, v \in BOOLEAN : InitCollector(r, v)
    /\ InitService(FALSE)
    /\ InitEnv

otherThanCollector == <<cacheVars, dedupVars, orchVars, envVars>>

NextCollector ==
    \/ /\ collectCalls < MaxCollects
       /\ \E n \in 0..MaxQueries : Collect(n)
       /\ UNCHANGED otherThanCollector
    \/ /\ \E q \in 1..Len(queries) :
             (retry_attempts > 0 => sourceCalls < MaxSourceCalls) /\ TaskRun(q)
       /\ UNCHANGED otherThanCollector
    \/ /\ \E q \in 1..Len(queries), raw_data \in RawLists : SourceReturns(q, raw_data)
       /\ UNCHANGED otherThanCollector
    \/ /\ \E q \in 1..Len(queries), kind \in {"timeout", "exception"} : SourceFails(q, kind)
       /\ UNCHANGED otherThanCollector
    \/ /\ \E q \in 1..Len(queries) :
             (task[q].attempt + 1 < retry_attempts => sourceCalls < MaxSourceCalls) /\ BackoffEnds(q)
       /\ UNCHANGED otherThanCollector
    \/ GatherReturns /\ UNCHANGED otherThanCollector
    \/ PauseEnds /\ UNCHANGED otherThanCollector

SpecCollector == InitColl /\ [][NextCollector]_vars

\* One collect call of a collector with the memory-constrained profile, given
\* more queries than one batch holds.
InitBatches ==
    /\ InitCache
    /\ \E r \in 1..MaxRetry : InitCollector(r, TRUE)
    /\ InitService(FALSE)
    /\ InitEnv

NextBatches ==
    \/ /\ collectCalls = 0
       /\ \E n \in (VercelBatchSize + 1)..MaxQueries : Collect(n)
       /\ UNCHANGED otherThanCollector
    \/ /\ sourceCalls < MaxBatchSourceCalls
       /\ \E q \in 1..Len(queries) : TaskRun(q)
       /\ UNCHANGED otherThanCollector
    \/ /\ \E q \in 1..Len(queries), raw_data \in RawLists : SourceReturns(q, raw_data)
       /\ UNCHANGED otherThanCollector
    \/ /\ \E q \in 1..Len(queries), kind \in {"timeout", "exception"} : SourceFails(q, kind)
       /\ UNCHANGED otherThanCollector
    \/ /\ \E q \in 1..Len(queries) :
             (task[q].attempt + 1 < retry_attempts => sourceCalls < MaxBatchSourceCalls)
                 /\ BackoffEnds(q)
       /\ UNCHANGED otherThanCollector
    \/ GatherReturns /\ UNCHANGED otherThanCollector
    \/ PauseEnds /\ UNCHANGED otherThanCollector

SpecBatches == InitBatches /\ [][NextBatches]_vars

----------------------------------------------------------------------------
(* Specification of the service: calls on one DataCollectorService, one after *)
(* the other.  data_collector.py uses the name time without importing it;     *)
(* time_bound tells whether the name is bound in the module's globals when    *)
(* the service runs (it is not in the module as it stands).                   *)

InitSvc ==
    /\ InitCache
    /\ InitCollector(3, TRUE)
    /\ \E b \in BOOLEAN : InitService(b)
    /\ InitEnv

NextService ==
    \/ runs < MaxRuns /\ CollectAllSources /\ UNCHANGED <<cacheVars, dedupVars, collVars, envVars>>
    \/ /\ runs < MaxRuns
       /\ \E src \in 0..Len(CollectorOrder) : CollectFromSource(src)
       /\ UNCHANGED <<cacheVars, dedupVars, collVars, envVars>>
    \/ /\ serviceCollects < MaxServiceCollects
       /\ \E raw \in ServiceRawLists : CollectorReturns(raw, FALSE)
       /\ UNCHANGED <<cacheVars, dedupVars, collVars, envVars>>
    \/ /\ serviceCollects < MaxServiceCollects
       /\ CollectorRaises
       /\ UNCHANGED <<cacheVars, dedupVars, collVars, envVars>>
    \/ /\ \E db_ok \in BOOLEAN : (db_ok \/ dbFailures < MaxDbFailures) /\ StoreRecord(db_ok)
       /\ UNCHANGED <<collVars, envVars>>
    \/ ResultCreated /\ UNCHANGED <<cacheVars, dedupVars, collVars, envVars>>
    \/ SessionCompleted /\ UNCHANGED <<collVars, envVars>>

SpecService == InitSvc /\ [][NextService]_vars

----------------------------------------------------------------------------
(* Properties of the cache *)

\* The entry a get found under its key, and whether the clock had passed its deadline.
GetFound == lastOp.op = "get" /\ lastOp.key \in KeysOf(lastOp.before)
GetEntry == lastOp.before[IndexOf(lastOp.before, lastOp.key)]
GetPastDeadline == lastOp.at > GetEntry.timestamp + GetEntry.ttl_hours

\* C1: immediately after every set on a partition, the size_bytes of the entries
\* of that partition sum to at most max_memory_bytes // 3, provided the entry
\* just inserted is itself no larger than that budget.
C1_MemoryBound ==
    (lastOp.op = "set" /\ SizeBytes(lastOp.data) <= max_memory_bytes \div 3)
        => SumSizes(stores[lastOp.cache_type]) <= max_memory_bytes \div 3

\* C1 witness: a set on pain_points that had to evict to make room for a fitting entry.
C1_Witness ==
    /\ lastOp.op = "set"
    /\ lastOp.cache_type = "pain_points"
    /\ lastOp.evicted # <<>>
    /\ SizeBytes(lastOp.data) > 0
    /\ SizeBytes(lastOp.data) <= max_memory_bytes \div 3
    /\ Len(stores["pain_points"]) = 1

\* C2: whenever a set evicts an entry, no entry of the partition at that moment
\* has an older last_accessed than the evicted one.
C2_EvictsOldestAccessed ==
    \A i \in 1..Len(lastOp.evicted) :
        \A j \in 1..Len(lastOp.evicted[i].from) :
            lastOp.evicted[i].entry.last_accessed <= lastOp.evicted[i].from[j].last_accessed

\* C3: a get on a key whose entry has now > timestamp + ttl returns None and the
\* entry is gone from its partition afterwards; a get on a present entry with
\* now <= timestamp + ttl returns the stored value.
C3_TTL ==
    GetFound =>
        /\ GetPastDeadline =>
              (lastOp.result = None /\ lastOp.key \notin KeysOf(stores[lastOp.cache_type]))
        /\ ~GetPastDeadline => lastOp.result = GetEntry.data

\* C3 witness: a get found an expired entry that no eviction had removed.
C3_Witness ==
    GetFound /\ GetPastDeadline /\ lastOp.result = None /\ Len(lastOp.before) = 2

\* After a hit: the stored value is returned, access_count is one more,
\* last_accessed is now, the key is at the most-recently-used end.
C10_HitState ==
    (GetFound /\ ~GetPastDeadline) =>
        LET s == stores[lastOp.cache_type]
        IN /\ lastOp.result = GetEntry.data
           /\ s # <<>>
           /\ s[Len(s)].key = lastOp.key
           /\ s[Len(s)].access_count = GetEntry.access_count + 1
           /\ s[Len(s)].last_accessed = lastOp.at
           /\ s[Len(s)].data = GetEntry.data
           /\ Len(s) = Len(lastOp.before)

\* A set right after a hit evicts the key that was hit only after all others.
C10_EvictedLast ==
    (/\ GetFound /\ ~GetPastDeadline
     /\ opCount' = opCount + 1
     /\ lastOp'.op = "set"
     /\ lastOp'.cache_type = lastOp.cache_type
     /\ \E i \in 1..Len(lastOp'.evicted) : lastOp'.evicted[i].entry.key = lastOp.key)
    => /\ lastOp'.evicted[Len(lastOp'.evicted)].entry.key = lastOp.key
       /\ Len(lastOp'.evicted) = Len(lastOp'.before)

\* C10: a get that hits returns the stored value, adds exactly 1 to access_count,
\* sets last_accessed to now and puts the key at the most-recently-used end; if the
\* next call is a set that evicts this key, every other entry was evicted before it.
C10_GetHit == []C10_HitState /\ [][C10_EvictedLast]_vars

\* C10 witness: a hit on the key at the LRU end of a partition of two entries.
C10_Witness ==
    /\ GetFound /\ ~GetPastDeadline
    /\ Len(lastOp.before) = 2
    /\ lastOp.before[1].key = lastOp.key
    /\ GetEntry.access_count = 1

\* C11: a set whose entry alone is larger than the partition budget evicts every
\* other entry of the partition and inserts the entry: afterwards the partition
\* holds exactly that one entry.
C11_OversizeAlone ==
    (lastOp.op = "set" /\ SizeBytes(lastOp.data) > max_memory_bytes \div 3) =>
        LET s == stores[lastOp.cache_type]
        IN /\ Len(s) = 1
           /\ s[1].key = lastOp.key
           /\ s[1].data = lastOp.data
           /\ s[1].timestamp = lastOp.at
           /\ Len(lastOp.evicted) = Len(lastOp.before)

\* A set of an oversized entry on a partition that held two entries, the
\* second of them under the key that is set.
C11_Witness ==
    /\ lastOp.op = "set"
    /\ SizeBytes(lastOp.data) > max_memory_bytes \div 3
    /\ Len(lastOp.before) = 2
    /\ lastOp.before[2].key = lastOp.key
    /\ Len(lastOp.evicted) = 2
    /\ Len(stores[lastOp.cache_type]) = 1

----------------------------------------------------------------------------
(* Properties of the deduplication *)

\* The string the claim keys an input by: title[:100], content[:200], source_url, concatenated.
DedupKey(inp) == Prefix(inp.title, 100) \o Prefix(inp.content, 200) \o inp.source_url

\* C4 as stated: while no pruning has happened, the first call with an input
\* returns false and every later call with the identical input returns true.
C4_FirstFalseThenTrue ==
    (lastDup.op = "is_duplicate_content" /\ ~lastDup.prunedBefore) =>
        (lastDup.result <=> lastDup.input \in lastDup.checkedBefore)

\* C4 as amended: while no pruning has happened, every later call with an identical
\* input returns true, and a first call returns false provided no input checked
\* earlier has the same title[:100] + content[:200] + source_url string.
C4_Idempotent ==
    (lastDup.op = "is_duplicate_content" /\ ~lastDup.prunedBefore) =>
        /\ lastDup.input \in lastDup.checkedBefore => lastDup.result
        /\ (\A c \in lastDup.checkedBefore : DedupKey(c) # DedupKey(lastDup.input))
              => ~lastDup.result

\* C4 witness: an input is checked again after two other inputs were checked.
C4_Witness ==
    /\ lastDup.op = "is_duplicate_content"
    /\ ~lastDup.prunedBefore
    /\ lastDup.input \in lastDup.checkedBefore
    /\ lastDup.result
    /\ Cardinality(lastDup.checkedBefore) >= 3

\* C6: when an insertion makes the set larger than the cap, the set is pruned to
\* exactly three quarters of the cap and the hashes kept are the most recently
\* inserted ones.
C6_PruneKeepsNewest ==
    lastDup.pruned =>
        LET n == Len(lastDup.orderBefore)
        IN /\ Cardinality(processed_content_hashes) = HashKeep
           /\ processed_content_hashes =
                 {lastDup.orderBefore[i] : i \in (n - HashKeep + 1)..n}


----------------------------------------------------------------------------
(* Properties of a collector *)

\* A query of the collect call that is over without a successful source call
Exhausted(q) == task[q].pc = "done" /\ ~task[q].succeeded

\* The entries that the query at position q added to errors
ErrorsOf(q) == {i \in 1..Len(stats.errors) : stats.errors[i].query = q}

\* C5: a query whose source call fails on every attempt is attempted exactly
\* retry_attempts + 1 times, adds exactly one entry to errors and contributes
\* no record (stated for the first collect call, where errors holds no
\* entry of an earlier call).
C5_RetryPlusOne ==
    collectCalls = 1 =>
        \A q \in 1..Len(task) :
            Exhausted(q) =>
                /\ task[q].attempts = retry_attempts + 1
                /\ Cardinality(ErrorsOf(q)) = 1
                /\ task[q].result = <<>>

\* The key of ContentDeduplicator on a record: (title prefix, body prefix, url)
RecordKey(p) == <<Prefix(p.title, TitlePrefixLen), Prefix(p.content, ContentPrefixLen), p.source_url>>

C9_FailureIsLocal ==
    phase = "returned" =>
        \A q \in 1..Len(task) :
            (Exhausted(q) /\ task[q].failures >= 1) =>
                \A o \in (1..Len(task)) \ {q} :
                    /\ task[o].pc = "done"
                    /\ task[o].attempts >= 1
                    /\ \A i \in 1..Len(task[o].result) :
                          \E j \in 1..Len(returned) : returned[j] = task[o].result[i]

\* A collect call returned the records of one query while another query of
\* the same batch had exhausted its retries.
C9_Witness ==
    /\ phase = "returned"
    /\ \E q, o \in 1..Len(task) :
          /\ Exhausted(q) /\ task[q].failures = retry_attempts
          /\ retry_attempts >= 1
          /\ task[o].succeeded /\ task[o].result # <<>>
          /\ returned # <<>>

----------------------------------------------------------------------------
(* Properties of the service *)

\* The hash is_duplicate_content computes for a row of the table
RowHash(row) == generate_content_hash(row.title, row.content, row.source_url)

\* Every create_pain_point call followed a check that returned false.
HandedAfterCheck == \A i \in 1..Len(handed) : ~handed[i].is_duplicate

\* No two rows of the table have the same hash.
PersistedDistinct ==
    \A i, j \in 1..Len(persisted) : i # j => RowHash(persisted[i]) # RowHash(persisted[j])

----------------------------------------------------------------------------
(* Properties of the batches of collect *)

\* The per-query tasks that have been started and are not over
InFlight == {q \in 1..Len(task) : task[q].pc \in {"created", "in_flight", "backoff"}}

\* The batch of the query at position q, counted from 0
BatchIndex(q) == (q - 1) \div VercelBatchSize

\* C12: with vercel_memory_limit at most 3 per-query tasks are in flight at any
\* moment of a collect call, and no query of a later batch has started while a
\* query of an earlier batch is not over.
C12_BatchedConcurrency ==
    vercel_memory_limit =>
        /\ Cardinality(InFlight) <= VercelBatchSize
        /\ \A q, o \in 1..Len(task) :
              (BatchIndex(o) < BatchIndex(q) /\ task[q].pc # "none") => task[o].pc = "done"

\* The source call of a query of the second batch is in flight, after a first
\* batch in which a query failed and was retried.
C12_Witness ==
    /\ vercel_memory_limit
    /\ phase = "gather"
    /\ \E q \in 1..Len(task) : BatchIndex(q) = 1 /\ task[q].pc = "in_flight"
    /\ \E o \in 1..Len(task) : BatchIndex(o) = 0 /\ task[o].failures >= 1

-----------------------------------------------------------------------------
(* Concurrent callers of is_duplicate_content *)

\* The content that several tasks submit, and the content only task t submits.
SharedContent == [title |-> <<"s">>, content |-> <<"c">>, source_url |-> <<"u">>]
OwnContent(t) == [title |-> Rep("f", t), content |-> <<>>, source_url |-> <<>>]

\* A task is created that will await is_duplicate_content(inp).
Spawn(inp) ==
    /\ callers' = Append(callers, [pc |-> "ready", input |-> inp, result |-> FALSE])
    /\ UNCHANGED <<cacheVars, dedupVars, global_cache, clock, sample, keyPair, fetches, pipeline, sched>>

\* Mutant of Call: the coroutine is suspended between its membership test and its
\* insert, so that other tasks run between the two.
Call_Suspends(t) ==
    LET inp == callers[t].input
        h == generate_content_hash(inp.title, inp.content, inp.source_url)
    IN /\ UNCHANGED <<global_cache, clock, sample, keyPair, fetches, pipeline, sched>>
       /\ \/ /\ callers[t].pc = "ready"
             /\ callers' = [callers EXCEPT ![t] =
                    IF h \in processed_content_hashes
                    THEN [@ EXCEPT !.pc = "done", !.result = TRUE]
                    ELSE [@ EXCEPT !.pc = "tested"]]
             /\ UNCHANGED <<cacheVars, dedupVars>>
          \/ /\ callers[t].pc = "tested"
             /\ IsDuplicateContent(inp)
             /\ callers' = [callers EXCEPT ![t] = [@ EXCEPT !.pc = "done", !.result = FALSE]]

\* The event loop runs task t.  The body of is_duplicate_content holds no await:
\* the coroutine runs from its first statement to its return in one step.
Call(t) ==
    /\ callers[t].pc = "ready"
    /\ IsDuplicateContent(callers[t].input)
    /\ callers' = [callers EXCEPT ![t] = [@ EXCEPT !.pc = "done", !.result = lastDup'.result]]
    /\ UNCHANGED <<global_cache, clock, sample, keyPair, fetches, pipeline, sched>>

NextTasks ==
    \/ /\ Len(callers) < MaxCallers
       /\ \E inp \in {SharedContent, OwnContent(Len(callers) + 1)} : Spawn(inp)
       /\ UNCHANGED <<collVars, orchVars>>
    \/ (\E t \in 1..Len(callers) : Call(t)) /\ UNCHANGED <<collVars, orchVars>>

SpecTasks == Init /\ [][NextTasks]_vars

\* The tasks that have returned from a call with the content inp
Returned(inp) == {t \in 1..Len(callers) : callers[t].pc = "done" /\ callers[t].input = inp}

\* C13: when several concurrent tasks call is_duplicate_content with the same
\* content, exactly one of them receives false (among the tasks that have
\* returned from a call with one content, exactly one was answered false).
C13_ExactlyOneFalse ==
    \A t \in 1..Len(callers) :
        LET D == Returned(callers[t].input)
        IN D # {} => Cardinality({d \in D : ~callers[d].result}) = 1

\* C13 (as the code has it): as long as no call has pruned the seen-hash set,
\* exactly one of the tasks that have returned from a call with one content was
\* answered false, whatever the order in which the event loop ran the tasks.
C13_OneFalseUntilPruned == ~prunedSince => C13_ExactlyOneFalse

\* Two tasks have returned from calls with the same content, the one created last
\* having run first, and a task with another content has returned too.
C13_Witness ==
    /\ ~prunedSince
    /\ \E t, u \in 1..Len(callers) :
          /\ t < u
          /\ callers[t].input = SharedContent /\ callers[u].input = SharedContent
          /\ callers[t].pc = "done" /\ callers[u].pc = "done"
          /\ callers[t].result /\ ~callers[u].result
    /\ \E o \in 1..Len(callers) : callers[o].input # SharedContent /\ callers[o].pc = "done"

-----------------------------------------------------------------------------
(* The sessions of the service and the cache of its collectors *)
(*                                                                          *)
(* DataCollectorService.__init__ builds a CacheManager of its own (stores), *)
(* while NaverCollector and AlternativeCollector take the CacheManager of   *)
(* get_cache_manager() (global_cache); RedditCollector uses none.           *)

ApiResponse == [kind |-> "dict", len |-> 2048]

\* cache_api_response on the CacheManager of get_cache_manager(): set with
\* ttl_hours = 2 in the api_response partition.
cache_api_response(cache, key, response_data, t) ==
    LET entry == CacheEntry(key, response_data, t, ApiResponseTtlHours)
        r == _ensure_memory_capacity(cache["api_response"], entry.size_bytes)
    IN [cache EXCEPT !["api_response"] = DictAssign(r.store, key, entry)]

\* The collector that the service is awaiting caches a response it fetched.
CollectorCaches(key) ==
    /\ opc = "collect"
    /\ CollectorOrder[cidx] # CollectorName
    /\ global_cache' = cache_api_response(global_cache, key, ApiResponse, now)
    /\ UNCHANGED <<callers, clock, sample, keyPair, fetches, pipeline, sched>>

\* An hour passes.
HourPasses ==
    /\ now' = now + 1
    /\ UNCHANGED <<stores, opCount, lastOp>>

NextSession ==
    \/ now < MaxSessionTime /\ HourPasses /\ UNCHANGED <<dedupVars, collVars, orchVars, envVars>>
    \/ runs < MaxRuns /\ CollectAllSources /\ UNCHANGED <<cacheVars, dedupVars, collVars, envVars>>
    \/ (\E key \in Keys : CollectorCaches(key)) /\ UNCHANGED <<cacheVars, dedupVars, collVars, orchVars>>
    \/ /\ serviceCollects < MaxRuns * Len(CollectorOrder)
       /\ \E raw \in {<<>>, <<News3>>} : CollectorReturns(raw, FALSE)
       /\ UNCHANGED <<cacheVars, dedupVars, collVars, envVars>>
    \/ StoreRecord(TRUE) /\ UNCHANGED <<collVars, envVars>>
    \/ ResultCreated /\ UNCHANGED <<cacheVars, dedupVars, collVars, envVars>>
    \/ SessionCompleted /\ UNCHANGED <<collVars, envVars>>

SpecSession == InitSvc /\ [][NextSession]_vars

\* The entries of a CacheManager that are expired at hour t
Expired(cache, t) ==
    UNION { { <<ct, i>> : i \in {j \in 1..Len(cache[ct]) : is_expired(cache[ct][j], t)} } :
            ct \in CacheTypes }

C15_HashesStay ==
    [][\/ processed_content_hashes \subseteq processed_content_hashes'
       \/ dupCalls' # dupCalls /\ lastDup'.pruned]_vars

-----------------------------------------------------------------------------
(* The retries of _collect_single_query on the clock of the event loop *)

InitBackoff ==
    /\ InitCache
    /\ \E r \in 1..(MaxRetry + 1) : InitCollector(r, TRUE)
    /\ InitService(FALSE)
    /\ InitEnv

\* A second passes.
ClockTick ==
    /\ clock' = clock + 1
    /\ UNCHANGED <<callers, global_cache, sample, keyPair, fetches, pipeline, sched>>

\* asyncio.sleep(delay) returns no earlier than delay after it was called.
SleepElapsed(q) ==
    LET k == Len(task[q].waits)
    IN clock >= task[q].fails[k] + task[q].waits[k]

NextBackoff ==
    \/ clock < MaxClock /\ ClockTick /\ UNCHANGED <<cacheVars, dedupVars, collVars, orchVars>>
    \/ collectCalls = 0 /\ (\E n \in 1..2 : Collect(n)) /\ UNCHANGED otherThanCollector
    \/ (\E q \in 1..Len(queries) : TaskRun(q)) /\ UNCHANGED otherThanCollector
    \/ /\ \E q \in 1..Len(queries), raw_data \in RawLists : SourceReturns(q, raw_data)
       /\ UNCHANGED otherThanCollector
    \/ /\ \E q \in 1..Len(queries), kind \in {"timeout", "exception"} : SourceFails(q, kind)
       /\ UNCHANGED otherThanCollector
    \/ /\ \E q \in 1..Len(queries) : task[q].pc = "backoff" /\ SleepElapsed(q) /\ BackoffEnds(q)
       /\ UNCHANGED otherThanCollector
    \/ GatherReturns /\ UNCHANGED otherThanCollector
    \/ PauseEnds /\ UNCHANGED otherThanCollector

SpecBackoff == InitBackoff /\ [][NextBackoff]_vars

\* C16: after the failure of attempt number k (from 0) of a query the collector
\* sleeps rate_limit_delay * 2^k; the next attempt of the query starts no earlier
\* than that long after the failure, and each wait of a query is twice the one
\* before it.
C16_ExponentialBackoff ==
    \A q \in 1..Len(task) :
        LET t == task[q]
        IN /\ \A k \in 1..Len(t.waits) : t.waits[k] = rate_limit_delay * (2 ^ (k - 1))
           /\ \A k \in 1..Len(t.starts) :
                 k > 1 => /\ k - 1 <= Len(t.fails)
                          /\ t.starts[k] >= t.fails[k - 1] + rate_limit_delay * (2 ^ (k - 2))
           /\ \A k \in 1..Len(t.waits) : k > 1 => t.waits[k] = 2 * t.waits[k - 1]

\* A query is in its third attempt, after two waits.
C16_Witness ==
    \E q \in 1..Len(task) :
        /\ task[q].pc = "in_flight"
        /\ Len(task[q].starts) = 3
        /\ Len(task[q].waits) = 2

\* C17: every call of collect_all_sources and of collect_from_source returns a
\* CollectionResult and never raises to its caller.
C17_NeverRaises == outcome.kind # "raised"

\* A collect_all_sources call has returned its CollectionResult.
SessionReturned == opc = "idle" /\ outcome.kind = "result" /\ outcome.source = <<"a", "l", "l">>

Failed(c) == \E i \in 1..Len(total_errors) : total_errors[i] = CollectorOrder[c]
Merged(c) == \E i \in 1..Len(collection_results) : collection_results[i].source = CollectorOrder[c]

C19_EveryDropCounted ==
    phase = "returned" =>
        stats.total_processed =
            Len(returnedAll) + stats.duplicates_filtered + stats.quality_filtered

-----------------------------------------------------------------------------
(* PainPointData.quality_score as a function of its four inputs *)

TitleLens == {0, 1, 49, 50, 51, MaxTitleLen}
ContentLens == {0, 1, 199, 200, 201, MaxContentLen}
KeywordCounts == 0..MaxKeywords
Confidences == {0, 300, 500, 800, 1000}      \* thousandths, within [0, 1]

\* A PainPointData with a title of tl and a content of cl characters, nk keywords
\* and the confidence conf, with its quality_score.
Sample(tl, cl, nk, conf) ==
    [title_len |-> tl, content_len |-> cl, nkeywords |-> nk, confidence |-> conf,
     score |-> quality_score([title |-> Rep("t", tl), content |-> Rep("c", cl),
                              nkeywords |-> nk, confidence |-> conf])]

\* The score is read again after one input has grown, the other three as they were.
LongerTitle ==
    \E tl \in TitleLens :
        /\ tl > sample.title_len
        /\ sample' = Sample(tl, sample.content_len, sample.nkeywords, sample.confidence)

LongerContent ==
    \E cl \in ContentLens :
        /\ cl > sample.content_len
        /\ sample' = Sample(sample.title_len, cl, sample.nkeywords, sample.confidence)

MoreKeywords ==
    \E nk \in KeywordCounts :
        /\ nk > sample.nkeywords
        /\ sample' = Sample(sample.title_len, sample.content_len, nk, sample.confidence)

MoreConfidence ==
    \E conf \in Confidences :
        /\ conf > sample.confidence
        /\ sample' = Sample(sample.title_len, sample.content_len, sample.nkeywords, conf)

otherThanSample == <<cacheVars, dedupVars, collVars, orchVars, callers, global_cache, clock,
                     keyPair, fetches, pipeline, sched>>

NextQuality ==
    \/ LongerTitle /\ UNCHANGED otherThanSample
    \/ LongerContent /\ UNCHANGED otherThanSample
    \/ MoreKeywords /\ UNCHANGED otherThanSample
    \/ MoreConfidence /\ UNCHANGED otherThanSample

SpecQuality == Init /\ [][NextQuality]_vars

\* C20: the score never decreases when one of title length, content length,
\* number of keywords and confidence grows while the other three stay as they
\* are, and with a confidence within [0, 1] the score is within [0, 1] (0..10000
\* in ten-thousandths).
C20_MonotoneAndBounded ==
    /\ [][sample'.score >= sample.score]_vars
    /\ [](sample.score >= 0 /\ sample.score <= 10000)

\* The record of 60 title characters, 300 content characters and 4 keywords with
\* confidence 0.8, reached from the same record with confidence 0.3.
C20_Witness ==
    /\ sample.title_len = 60 /\ sample.content_len = 300
    /\ sample.nkeywords = 4 /\ sample.confidence = 800
    /\ sample.score = 9400

-----------------------------------------------------------------------------
(* CacheManager.generate_cache_key *)
(*                                                                          *)
(* params is None or a dict.  A dict is the sequence of its items in the    *)
(* order of insertion; a value is a Python scalar with its type: the int,   *)
(* float or bool of the number n, or the str that spells n.                 *)

ParamKeys == <<"a", "b">>                   \* in the order sort_keys gives them
ParamValues ==
    { [t |-> "int", n |-> 1], [t |-> "float", n |-> 1], [t |-> "bool", n |-> 1],
      [t |-> "str", n |-> 1], [t |-> "int", n |-> 2] }

Range(f) == {f[i] : i \in DOMAIN f}

Dicts ==
    { d \in UNION { [1..n -> [k : Range(ParamKeys), v : ParamValues]] : n \in 0..Len(ParamKeys) } :
        \A i, j \in DOMAIN d : i # j => d[i].k # d[j].k }

PyNone == [none |-> TRUE, items |-> <<>>]
PyDict(d) == [none |-> FALSE, items |-> d]
ParamsArgs == {PyNone} \cup {PyDict(d) : d \in Dicts}

\* Python's ==: numbers are compared by value across int, float and bool
PyEq(x, y) == (x.t = "str") = (y.t = "str") /\ x.n = y.n

\* d1 == d2 for dicts: the same keys with equal values, whatever the order
DictEq(d1, d2) ==
    /\ {d1[i].k : i \in DOMAIN d1} = {d2[i].k : i \in DOMAIN d2}
    /\ \A i \in DOMAIN d1, j \in DOMAIN d2 : d1[i].k = d2[j].k => PyEq(d1[i].v, d2[j].v)

Digit(n) == IF n = 0 THEN "0" ELSE IF n = 1 THEN "1" ELSE "2"

\* json.dumps of a scalar
JsonScalar(x) ==
    IF x.t = "int" THEN <<Digit(x.n)>>
    ELSE IF x.t = "float" THEN <<Digit(x.n), ".", "0">>
    ELSE IF x.t = "bool" THEN (IF x.n = 1 THEN <<"t", "r", "u", "e">> ELSE <<"f", "a", "l", "s", "e">>)
    ELSE <<"\"", Digit(x.n), "\"">>

\* Mutant of SortKeys: the items stay in the order of insertion.
SortKeys_Unsorted(d) == d

\* sort_keys=True: the items in the order of their keys
SortKeys(d) ==
    LET present == Restrict(ParamKeys, {d[i].k : i \in DOMAIN d})
    IN [i \in 1..Len(present) |-> d[CHOOSE j \in DOMAIN d : d[j].k = present[i]]]

RECURSIVE JsonItems(_)
JsonItems(d) ==
    IF d = <<>> THEN <<>>
    ELSE <<"\"", Head(d).k, "\"", ":", " ">> \o JsonScalar(Head(d).v)
            \o (IF Tail(d) = <<>> THEN <<>> ELSE <<",", " ">> \o JsonItems(Tail(d)))

\* json.dumps(params or {}, sort_keys=True)
params_str(params) ==
    LET d == IF params.none \/ params.items = <<>> THEN <<>> ELSE params.items
    IN <<"{">> \o JsonItems(SortKeys(d)) \o <<"}">>

\* md5 of f"{source}:{query}:{params_str}", represented by the hashed string
generate_cache_key(source, query, params) ==
    source \o <<":">> \o query \o <<":">> \o params_str(params)

\* generate_cache_key is called twice with the same source and query.
GenerateKeys(source, query, p1, p2) ==
    /\ keyPair' = [called |-> TRUE, source |-> source, query |-> query,
                   params1 |-> p1, params2 |-> p2,
                   key1 |-> generate_cache_key(source, query, p1),
                   key2 |-> generate_cache_key(source, query, p2)]
    /\ UNCHANGED <<callers, global_cache, clock, sample, fetches, pipeline, sched>>

NextKeys ==
    /\ ~keyPair.called
    /\ \E source \in {<<"n">>}, query \in {<<"q">>, <<>>}, p1, p2 \in ParamsArgs :
          GenerateKeys(source, query, p1, p2)
    /\ UNCHANGED <<cacheVars, dedupVars, collVars, orchVars>>

SpecKeys == Init /\ [][NextKeys]_vars

\* params1 == params2 in Python, None standing for the empty dict
EqualAsMaps == DictEq(keyPair.params1.items, keyPair.params2.items)

\* The two dicts hold the same items, in whatever order
SameItems == Range(keyPair.params1.items) = Range(keyPair.params2.items)

\* C21: two calls with equal source, equal query and params that are equal as
\* maps (whatever the order of insertion of the keys, absent params being the
\* empty map) return the same key.
C21_SameRequestSameKey ==
    (keyPair.called /\ EqualAsMaps) => keyPair.key1 = keyPair.key2

\* C21 (as the code has it): two calls with equal source, equal query and params
\* that hold the same keys with values of the same type and value (whatever the
\* order of insertion, absent params being the empty map) return the same key.
C21_SameItemsSameKey ==
    (keyPair.called /\ SameItems) => keyPair.key1 = keyPair.key2

\* Two dicts of the same two items, inserted in opposite orders, got the same key.
C21_Witness ==
    /\ keyPair.called
    /\ Len(keyPair.params1.items) = 2
    /\ SameItems
    /\ keyPair.params1.items[1] = keyPair.params2.items[2]
    /\ keyPair.key1 = keyPair.key2

-----------------------------------------------------------------------------
(* The errors lists of the results of the service *)
(*                                                                          *)
(* get_stats returns self._stats.copy(), a shallow copy: its "errors" is    *)
(* the list object of the collector, which collect appends to and nothing   *)
(* resets.  collect_from_source gives that list to its CollectionResult.    *)

NextErrors ==
    \/ runs < MaxRuns /\ CollectAllSources /\ UNCHANGED <<cacheVars, dedupVars, collVars, envVars>>
    \/ /\ runs < MaxRuns
       /\ \E src \in 0..Len(CollectorOrder) : CollectFromSource(src)
       /\ UNCHANGED <<cacheVars, dedupVars, collVars, envVars>>
    \/ /\ serviceCollects < MaxServiceCollects
       /\ \E raw \in {<<>>, <<News3>>}, failed \in BOOLEAN : CollectorReturns(raw, failed)
       /\ UNCHANGED <<cacheVars, dedupVars, collVars, envVars>>
    \/ /\ serviceCollects < MaxServiceCollects
       /\ CollectorRaises
       /\ UNCHANGED <<cacheVars, dedupVars, collVars, envVars>>
    \/ StoreRecord(TRUE) /\ UNCHANGED <<collVars, envVars>>
    \/ ResultCreated /\ UNCHANGED <<cacheVars, dedupVars, collVars, envVars>>
    \/ SessionCompleted /\ UNCHANGED <<collVars, envVars>>

SpecErrors == InitSvc /\ [][NextErrors]_vars

\* The errors list of the result the caller holds, as it reads now
HeldErrorsNow ==
    IF held.errors_of = 0 THEN held.result.errors ELSE collectors[held.errors_of].errors

RECURSIVE RunErrors(_)
RunErrors(c) ==
    IF c = 0 THEN 0
    ELSE Cardinality({i \in 1..Len(collectors[c].errors) : collectors[c].errors[i].run = runs})
            + RunErrors(c - 1)

RunPersisted == SumField(collection_results, "collected_count")

\* C23: after any sequence of collect_all_sources runs, total_sessions is the
\* number of runs started, successful_sessions is at most total_sessions, and a
\* step raises successful_sessions, by one, exactly when it is the return of a
\* run that persisted at least one record.
C23_SessionStats ==
    /\ [](/\ collection_stats.total_sessions = runs
          /\ collection_stats.successful_sessions <= collection_stats.total_sessions)
    /\ [][/\ collection_stats'.successful_sessions \in
               {collection_stats.successful_sessions, collection_stats.successful_sessions + 1}
          /\ (collection_stats'.successful_sessions = collection_stats.successful_sessions + 1)
                <=> (opc = "finish" /\ opc' = "idle" /\ RunPersisted > 0)]_vars

\* The same with the name time bound in data_collector.py
C23_SessionStatsTimeBound ==
    /\ [](time_bound => collection_stats.total_sessions = runs)
    /\ [][(collection_stats'.successful_sessions = collection_stats.successful_sessions + 1)
                <=> (opc = "finish" /\ opc' = "idle" /\ RunPersisted > 0)]_vars

-----------------------------------------------------------------------------
(* cleanup_expired on a CacheManager with entries in all partitions and *)
(* hashes in its seen-hash set                                          *)

NextSweep ==
    \/ Tick /\ UNCHANGED <<collVars, orchVars, envVars>>
    \/ /\ opCount < MaxSweepOps
       /\ \E k \in Keys, t \in TTLs, ct \in CacheTypes : Set(k, ApiResponse, t, ct)
       /\ UNCHANGED <<collVars, orchVars, envVars>>
    \/ /\ dupCalls < MaxPartOps
       /\ IsDuplicateContent(SharedContent)
       /\ UNCHANGED <<collVars, orchVars, envVars>>
    \/ opCount < MaxSweepOps /\ CleanupExpired /\ UNCHANGED <<collVars, orchVars, envVars>>

SpecSweep == Init /\ [][NextSweep]_vars

\* The entries of store with now <= timestamp + ttl, in their order
Unexpired(store, t) == SelectSeq(store, LAMBDA e : ~(t > e.timestamp + e.ttl_hours))

\* C24: cleanup_expired removes from all three partitions exactly the entries
\* with now > timestamp + ttl: afterwards no partition holds an expired entry,
\* and every other entry, the order of the entries and the seen-hash set are as
\* they were.
C24_SweepExact ==
    [][(lastOp'.op = "cleanup_expired" /\ opCount' = opCount + 1) =>
          /\ \A ct \in CacheTypes : stores'[ct] = Unexpired(stores[ct], now)
          /\ \A ct \in CacheTypes : \A i \in 1..Len(stores'[ct]) :
                ~(now' > stores'[ct][i].timestamp + stores'[ct][i].ttl_hours)
          /\ processed_content_hashes' = processed_content_hashes]_vars

\* cleanup_expired has removed an entry and left another, with a hash in the set.
C24_Witness ==
    /\ lastOp.op = "cleanup_expired"
    /\ Len(lastOp.before)
          > Len(stores["general"]) + Len(stores["pain_points"]) + Len(stores["api_response"])
    /\ \E ct \in CacheTypes : stores[ct] # <<>>
    /\ processed_content_hashes # {}

-----------------------------------------------------------------------------
(* One collect call run to its end: the event loop runs every coroutine  *)
(* that can run, every sleep ends, and every source call eventually      *)
(* returns, raises or times out.                                         *)

LiveRawLists == { <<>>, <<Good>> }

\* The numbers of queries of the collect call: up to MaxLiveQueries, and with
\* the memory-constrained profile also one more than a batch holds.
LiveQueryCounts ==
    (0..MaxLiveQueries) \cup (IF vercel_memory_limit THEN {VercelBatchSize + 1} ELSE {})

LiveRun(q) == q \in 1..Len(queries) /\ TaskRun(q) /\ UNCHANGED otherThanCollector

LiveSourceCallEnds(q) ==
    /\ q \in 1..Len(queries)
    /\ \/ \E raw_data \in LiveRawLists : SourceReturns(q, raw_data)
       \/ \E kind \in {"timeout", "exception"} : SourceFails(q, kind)
    /\ UNCHANGED otherThanCollector

LiveBackoffEnds(q) == q \in 1..Len(queries) /\ BackoffEnds(q) /\ UNCHANGED otherThanCollector

NextLive ==
    \/ /\ collectCalls = 0
       /\ \E n \in LiveQueryCounts : Collect(n)
       /\ UNCHANGED otherThanCollector
    \/ \E q \in 1..Len(queries) : LiveRun(q)
    \/ \E q \in 1..Len(queries) : LiveSourceCallEnds(q)
    \/ \E q \in 1..Len(queries) : LiveBackoffEnds(q)
    \/ GatherReturns /\ UNCHANGED otherThanCollector
    \/ PauseEnds /\ UNCHANGED otherThanCollector

\* The coroutine of q is at one place at a time, and so is collect: one
\* condition per coroutine covers its run, its source call and its sleep.
FairLive ==
    /\ \A q \in 1..(MaxLiveQueries + VercelBatchSize + 1) :
          WF_vars(LiveRun(q) \/ LiveSourceCallEnds(q) \/ LiveBackoffEnds(q))
    /\ WF_vars((GatherReturns \/ PauseEnds) /\ UNCHANGED otherThanCollector)

SpecLive == InitColl /\ [][NextLive]_vars /\ FairLive

\* The query at position q has been given to _collect_single_query.
Started(q) == q \in 1..Len(queries) /\ task[q].pc # "none"

\* _collect_single_query of q has returned: after a successful attempt, or
\* after as many failed attempts as retry_attempts allows.
Terminal(q) ==
    /\ q \in 1..Len(queries)
    /\ task[q].pc = "done"
    /\ \/ task[q].succeeded /\ task[q].failures < retry_attempts
       \/ ~task[q].succeeded /\ task[q].failures = retry_attempts

\* C26: with every source call ending, every query of a collect call reaches
\* exactly one terminal state (success, or failure of all its attempts) and
\* stays in it, no attempt is made for a query after its first successful
\* attempt, and the collect call returns.
C26_EveryQueryEnds ==
    /\ (collectCalls > 0) ~> (\A q \in 1..Len(queries) : Terminal(q))
    /\ (collectCalls > 0) ~> (phase = "returned")
    /\ [][\A q \in 1..Len(queries) :
            /\ (Started(q) /\ task[q].pc = "done") => (Terminal(q) /\ task'[q] = task[q])
            /\ (Started(q) /\ task[q].succeeded) => task'[q].attempts = task[q].attempts]_vars
    /\ [](phase = "returned" /\ collectCalls > 0 => \A q \in 1..Len(queries) : Terminal(q))

\* A collect call has returned with one query that succeeded on a retry and
\* one whose attempts all failed.
C26_Witness ==
    /\ phase = "returned"
    /\ \E q1, q2 \in 1..Len(queries) :
          /\ task[q1].succeeded /\ task[q1].failures >= 1
          /\ ~task[q2].succeeded /\ task[q2].attempts = retry_attempts /\ retry_attempts >= 2

-----------------------------------------------------------------------------
\* C27: a set on a key that is already present in the partition makes that key
\* the most-recently-used one: after the set it is at the end of the recency
\* order of the partition, the end from which entries are evicted last.
C27_OverwriteIsMostRecent ==
    (lastOp.op = "set" /\ lastOp.key \in KeysOf(lastOp.before)) =>
        stores[lastOp.cache_type][Len(stores[lastOp.cache_type])].key = lastOp.key

\* The hash of the content given to the last is_duplicate_content call
LastDupHash ==
    generate_content_hash(lastDup.input.title, lastDup.input.content, lastDup.input.source_url)

\* C28: the hash inserted by the is_duplicate_content call that triggers
\* pruning is still in the seen-hash set when that call returns, so that the
\* next call with the same content returns true.
C28_PruningCallKeepsItsHash ==
    (lastDup.op = "is_duplicate_content" /\ lastDup.pruned) =>
        LastDupHash \in processed_content_hashes

\* C29: after every is_duplicate_content call the seen-hash set holds at most
\* as many hashes as the cap (10,000), whatever the sequence of calls.
C29_AtMostCap ==
    lastDup.op = "is_duplicate_content" => Cardinality(processed_content_hashes) <= HashCap

\* The set has been filled up to the cap and the next new hash has pruned it.
C29_Witness ==
    /\ lastDup.op = "is_duplicate_content"
    /\ lastDup.pruned
    /\ Len(lastDup.orderBefore) = HashCap + 1
    /\ Cardinality(processed_content_hashes) = HashKeep

\* A row with this hash was given to create_pain_point, and no row with it was inserted.
FailedToPersist(h) ==
    /\ \E i \in 1..Len(handed) : RowHash(handed[i].row) = h
    /\ \A j \in 1..Len(persisted) : RowHash(persisted[j]) # h

-----------------------------------------------------------------------------
-----------------------------------------------------------------------------
(* A caching collector (NaverCollector): _collect_raw_data on the        *)
(* CacheManager of get_cache_manager(), here the cache of the module     *)

FetchItemA == [title |-> <<"a">>, content |-> <<"b">>, source_url |-> <<"u">>]
FetchItemB == [title |-> <<"c">>, content |-> <<"d">>, source_url |-> <<"v">>]

\* The item lists a source call may yield
FetchLists == { <<>>, <<FetchItemA>>, <<FetchItemB>>, <<FetchItemA, FetchItemB>>,
                <<FetchItemA, FetchItemA>> }

FetchQueries == { <<"q">>, <<"r">> }

\* generate_cache_key(source, query, {"type": "pain_points"})
PainPointsKey(source, query) ==
    source \o <<":">> \o query \o <<":">>
        \o <<"{", "\"", "type", "\"", ":", " ", "\"", "pain_points", "\"", "}">>

\* len(str(points)) of a list of dicts with the keys title, content, source_url
DictStrLen(p) == 46 + Len(p.title) + Len(p.content) + Len(p.source_url)

RECURSIVE ItemsStrLen(_)
ItemsStrLen(points) ==
    IF points = <<>> THEN 0
    ELSE DictStrLen(Head(points)) + (IF Tail(points) = <<>> THEN 0 ELSE 2)
            + ItemsStrLen(Tail(points))

ListStrLen(points) == 2 + ItemsStrLen(points)

ListPayload(points) == [kind |-> "list", len |-> ListStrLen(points), items |-> points]

\* The filter loop of cache_pain_points: the points for which
\* is_duplicate_content returns false, and the seen-hash set afterwards
\* (below the cap of the set, where no call prunes).
RECURSIVE UniquePoints(_, _, _)
UniquePoints(points, seen, acc) ==
    IF points = <<>> THEN [unique |-> acc, seen |-> seen]
    ELSE LET p == Head(points)
             h == generate_content_hash(p.title, p.content, p.source_url)
         IN IF h \in seen THEN UniquePoints(Tail(points), seen, acc)
            ELSE UniquePoints(Tail(points), seen \cup {h}, Append(acc, p))

\* get_cached_pain_points: get on the pain_points partition
get_cached_pain_points(store, key, t) ==
    IF key \notin KeysOf(store) THEN [store |-> store, result |-> None]
    ELSE LET i == IndexOf(store, key)
         IN IF is_expired(store[i], t)
            THEN [store |-> RemoveAt(store, i), result |-> None]
            ELSE [store |-> move_to_end([store EXCEPT ![i] = touch(store[i], t)], key),
                  result |-> store[i].data]

\* cache_pain_points: set of the unique points with ttl_hours in the pain_points partition
cache_pain_points(store, key, unique_points, t, ttl_hours) ==
    LET entry == CacheEntry(key, ListPayload(unique_points), t, ttl_hours)
        r == _ensure_memory_capacity(store, entry.size_bytes)
    IN DictAssign(r.store, key, entry)

\* if cached_data: a list that is not empty
Truthy(result) == result # None /\ result.items # <<>>

\* _collect_raw_data(query, limit) of the collector; fetched (all_results) is what the
\* endpoints yield if they are asked.
CollectRawData(query, fetched) ==
    LET key == PainPointsKey(<<"n", "a", "v", "e", "r">>, query)
        g == get_cached_pain_points(stores["pain_points"], key, now)
        u == UniquePoints(fetched, processed_content_hashes, <<>>)
    IN /\ Cardinality(processed_content_hashes) + Len(fetched) <= HashCap
       /\ IF Truthy(g.result)
          THEN /\ stores' = [stores EXCEPT !["pain_points"] = g.store]
               /\ fetches' = Append(fetches, [query |-> query, source_call |-> FALSE,
                                              result |-> g.result.items, at |-> now])
               /\ UNCHANGED <<processed_content_hashes, hashOrder>>
          ELSE /\ stores' = [stores EXCEPT !["pain_points"] =
                                cache_pain_points(g.store, key, u.unique, now, NaverTtlHours)]
               /\ processed_content_hashes' = u.seen
               /\ hashOrder' = hashOrder \o [i \in 1..Len(u.unique) |->
                                    generate_content_hash(u.unique[i].title, u.unique[i].content,
                                                          u.unique[i].source_url)]
               /\ fetches' = Append(fetches, [query |-> query, source_call |-> TRUE,
                                              result |-> fetched, at |-> now])
       /\ UNCHANGED <<now, opCount, lastOp, checked, prunedSince, dupCalls, lastDup>>
       /\ UNCHANGED <<callers, global_cache, clock, sample, keyPair, pipeline, sched>>
       /\ UNCHANGED <<collVars, orchVars>>

NextFetch ==
    \/ Tick /\ UNCHANGED <<collVars, orchVars, envVars>>
    \/ /\ Len(fetches) < MaxFetches
       /\ \E query \in FetchQueries, fetched \in FetchLists : CollectRawData(query, fetched)

SpecFetch == Init /\ [][NextFetch]_vars

\* The call after call i that has the query of call i, if there is one
NextFetchOf(i) ==
    {j \in (i + 1)..Len(fetches) :
        /\ fetches[j].query = fetches[i].query
        /\ \A k \in (i + 1)..(j - 1) : fetches[k].query # fetches[i].query}

\* C33: after a _collect_raw_data call has fetched a non-empty item list for a
\* query and cached it, the next _collect_raw_data call for that query before
\* the TTL elapses makes no source call and returns the items that the first
\* call returned.
C33_CachedRoundTrip ==
    \A i \in 1..Len(fetches) : \A j \in NextFetchOf(i) :
        (/\ fetches[i].source_call
         /\ fetches[i].result # <<>>
         /\ fetches[j].at <= fetches[i].at + NaverTtlHours)
        => (~fetches[j].source_call /\ fetches[j].result = fetches[i].result)

-----------------------------------------------------------------------------
\* The triple of an input: (title[:100], content[:200], source_url)
InputTriple(inp) ==
    <<Prefix(inp.title, TitlePrefixLen), Prefix(inp.content, ContentPrefixLen), inp.source_url>>

\* C34: is_duplicate_content returns true for an input only if an earlier
\* call had the same (title[:100], content[:200], source_url) triple; inputs
\* whose triples differ never have the same dedup key.
C34_TrueOnlyForSameTriple ==
    (lastDup.op = "is_duplicate_content" /\ lastDup.result) =>
        \E c \in lastDup.checkedBefore : InputTriple(c) = InputTriple(lastDup.input)

\* C35: after the last permitted attempt of a query has failed the query goes
\* straight to exhausted-failure: a query waits in a backoff only when another
\* attempt follows.
C35_NoBackoffAfterLastAttempt ==
    \A q \in 1..Len(task) :
        task[q].pc = "backoff" => task[q].failures < retry_attempts

-----------------------------------------------------------------------------
(* Calls on the three partitions of one CacheManager, each on one partition *)

IsolationPayloads == { p \in Payloads : p.kind \in {"list", "int"} }

NextIsolation ==
    \/ Tick /\ UNCHANGED <<collVars, orchVars, envVars>>
    \/ /\ opCount < MaxIsolationOps
       /\ \E k \in Keys, d \in IsolationPayloads, ct \in CacheTypes : Set(k, d, 0, ct)
       /\ UNCHANGED <<collVars, orchVars, envVars>>
    \/ /\ opCount < MaxIsolationOps
       /\ \E k \in Keys, ct \in CacheTypes : Get(k, ct)
       /\ UNCHANGED <<collVars, orchVars, envVars>>
    \/ /\ opCount < MaxIsolationOps
       /\ \E k \in Keys, ct \in CacheTypes : Delete(k, ct)
       /\ UNCHANGED <<collVars, orchVars, envVars>>
    \/ /\ opCount < MaxIsolationOps
       /\ \E ct \in CacheTypes : ClearCache(ct)
       /\ UNCHANGED <<collVars, orchVars, envVars>>

SpecIsolation == Init /\ [][NextIsolation]_vars

\* C36: a set (with the evictions it causes), a get, a delete or a clear_cache
\* of one partition leaves the entries of the other two partitions and their
\* order as they were.
C36_PartitionsIsolated ==
    [][(opCount' = opCount + 1 /\ lastOp'.op \in {"set", "get", "delete", "clear_cache"}
            /\ lastOp'.cache_type # "all") =>
          \A ct \in CacheTypes \ {lastOp'.cache_type} : stores'[ct] = stores[ct]]_vars

\* A set has evicted an entry of its partition while its key holds another
\* value in another partition.
C36_Witness ==
    /\ lastOp.op = "set"
    /\ lastOp.evicted # <<>>
    /\ lastOp.key \in KeysOf(stores[lastOp.cache_type])
    /\ \E ct \in CacheTypes \ {lastOp.cache_type} :
          /\ lastOp.key \in KeysOf(stores[ct])
          /\ stores[ct][IndexOf(stores[ct], lastOp.key)].data # lastOp.data

\* C37: collect called with an empty query list returns an empty record list
\* and records no error, with the memory-constrained profile and without it
\* (stated for the first collect call, where errors holds no earlier entry).
C37_EmptyQueriesNoError ==
    (phase = "returned" /\ collectCalls = 1 /\ Len(queries) = 0) =>
        (returned = <<>> /\ stats.errors = <<>>)

-----------------------------------------------------------------------------
(* PipelineManager: run_pipeline *)

\* The stages in the order of the body of run_pipeline
StageOrder ==
    <<"data_collection", "ai_analysis", "idea_generation", "telegram_notification", "completed">>

StagePos(st) == CHOOSE i \in 1..Len(StageOrder) : StageOrder[i] = st

\* The flags of a configuration: the three of pipeline_configs and any custom_config
PipelineConfigs ==
    [enable_ai_analysis : BOOLEAN, generate_ideas : BOOLEAN, send_telegram : BOOLEAN]

\* config.get(flag, False) of the stage
StageEnabled(st, config) ==
    IF st = "ai_analysis" THEN config.enable_ai_analysis
    ELSE IF st = "idea_generation" THEN config.generate_ideas
    ELSE IF st = "telegram_notification" THEN config.send_telegram
    ELSE TRUE

\* The stage that run_pipeline enters after stage st
NextStage(st, config) ==
    LET later == {i \in (StagePos(st) + 1)..Len(StageOrder) : StageEnabled(StageOrder[i], config)}
    IN StageOrder[CHOOSE i \in later : \A j \in later : i <= j]

\* metrics.stage = st; with "completed", end_time is set and metrics is returned.
EnterStage(metrics, st, nerrors) ==
    pipeline' = [metrics EXCEPT !.stage = st, !.stages = Append(@, st), !.errors = @ + nerrors,
                                !.end_time = IF st = "completed" THEN TRUE ELSE @,
                                !.pc = IF st = "completed" THEN "returned" ELSE @]

\* run_pipeline(pipeline_type, custom_config) is called: metrics is created and
\* the data collection stage is entered.
RunPipeline(config) ==
    /\ pipeline.pc \in {"idle", "returned"}
    /\ pipeline' = [pc |-> "running", stage |-> "data_collection",
                    stages |-> <<"data_collection">>, end_time |-> FALSE, errors |-> 0,
                    total_collected |-> 0, config |-> config, runs |-> pipeline.runs + 1]

\* _execute_data_collection returns a result with collected_count (failed: it
\* caught an exception, noted it and returned a result of zero records).
DataCollectionEnds(collected_count, failed) ==
    /\ pipeline.pc = "running"
    /\ pipeline.stage = "data_collection"
    /\ failed => collected_count = 0
    /\ IF collected_count = 0
       THEN pipeline' = [pipeline EXCEPT !.errors = @ + 1 + (IF failed THEN 1 ELSE 0),
                                         !.pc = "returned"]
       ELSE EnterStage([pipeline EXCEPT !.total_collected = collected_count],
                       NextStage("data_collection", pipeline.config), 0)

\* The stage helper of the current stage returns (failed: it caught an
\* exception and noted it in metrics.errors).
StageEnds(failed) ==
    /\ pipeline.pc = "running"
    /\ pipeline.stage \in {"ai_analysis", "idea_generation", "telegram_notification"}
    /\ EnterStage(pipeline, NextStage(pipeline.stage, pipeline.config), IF failed THEN 1 ELSE 0)

\* An exception escapes the body of run_pipeline: the except branch notes it,
\* sets end_time and returns metrics.
PipelineRaises ==
    /\ pipeline.pc = "running"
    /\ pipeline' = [pipeline EXCEPT !.errors = @ + 1, !.end_time = TRUE, !.pc = "returned"]

otherThanPipeline ==
    <<cacheVars, dedupVars, collVars, orchVars, callers, global_cache, clock, sample, keyPair,
      fetches, sched>>

NextPipeline ==
    \/ /\ pipeline.runs < MaxPipelineRuns
       /\ \E config \in PipelineConfigs : RunPipeline(config)
       /\ UNCHANGED otherThanPipeline
    \/ /\ \E collected_count \in 0..1, failed \in BOOLEAN : DataCollectionEnds(collected_count, failed)
       /\ UNCHANGED otherThanPipeline
    \/ (\E failed \in BOOLEAN : StageEnds(failed)) /\ UNCHANGED otherThanPipeline
    \/ PipelineRaises /\ UNCHANGED otherThanPipeline

SpecPipeline == Init /\ [][NextPipeline]_vars

\* C38: run_pipeline enters its stages only in the order data_collection,
\* ai_analysis, idea_generation, telegram_notification, completed; it runs no
\* stage after data_collection when zero records were collected; and every
\* PipelineMetrics it returns has end_time set.
C38_StagesInOrderAndEnded ==
    /\ \A i, j \in 1..Len(pipeline.stages) :
          i < j => StagePos(pipeline.stages[i]) < StagePos(pipeline.stages[j])
    /\ (pipeline.pc = "returned" /\ pipeline.total_collected = 0) =>
          pipeline.stages = <<"data_collection">>
    /\ pipeline.pc = "returned" => pipeline.end_time

-----------------------------------------------------------------------------
(* SchedulerService: start, stop and the loop threads *)

\* start(): nothing if running; otherwise running = True and a new thread
\* with target _run_scheduler is started.
SchedulerStart ==
    /\ sched.pc = "idle"
    /\ sched' = IF sched.running
                THEN [sched EXCEPT !.calls = @ + 1]
                ELSE [sched EXCEPT !.calls = @ + 1, !.running = TRUE,
                                   !.threads = Append(@, "while"),
                                   !.thread = Len(sched.threads) + 1]

\* stop() sets running = False and, if there is a thread, calls join(timeout=5).
SchedulerStop ==
    /\ sched.pc = "idle"
    /\ sched' = [sched EXCEPT !.calls = @ + 1, !.running = FALSE,
                              !.pc = IF sched.thread # 0 THEN "join" ELSE "idle"]

\* join(timeout=5) returns: the thread has ended, or five seconds have passed
\* while it is still in run_pending or in its sleep of 60 seconds.
JoinReturns ==
    /\ sched.pc = "join"
    /\ sched.threads[sched.thread] \in {"ended", "run_pending", "sleep"}
    /\ sched' = [sched EXCEPT !.pc = "idle"]

\* while self.running: of the loop thread t
ThreadTestsRunning(t) ==
    /\ sched.threads[t] = "while"
    /\ sched' = [sched EXCEPT !.threads[t] = IF sched.running THEN "run_pending" ELSE "ended"]

\* schedule.run_pending() of the loop thread t returns (or raises): time.sleep(60)
ThreadRunsPending(t) ==
    /\ sched.threads[t] = "run_pending"
    /\ sched' = [sched EXCEPT !.threads[t] = "sleep"]

\* time.sleep(60) of the loop thread t is over.
ThreadWakes(t) ==
    /\ sched.threads[t] = "sleep"
    /\ sched' = [sched EXCEPT !.threads[t] = "while"]

otherThanScheduler ==
    <<cacheVars, dedupVars, collVars, orchVars, callers, global_cache, clock, sample, keyPair,
      fetches, pipeline>>

NextScheduler ==
    \/ sched.calls < MaxSchedulerCalls /\ SchedulerStart /\ UNCHANGED otherThanScheduler
    \/ sched.calls < MaxSchedulerCalls /\ SchedulerStop /\ UNCHANGED otherThanScheduler
    \/ JoinReturns /\ UNCHANGED otherThanScheduler
    \/ (\E t \in 1..Len(sched.threads) : ThreadTestsRunning(t)) /\ UNCHANGED otherThanScheduler
    \/ (\E t \in 1..Len(sched.threads) : ThreadRunsPending(t)) /\ UNCHANGED otherThanScheduler
    \/ (\E t \in 1..Len(sched.threads) : ThreadWakes(t)) /\ UNCHANGED otherThanScheduler

SpecScheduler == Init /\ [][NextScheduler]_vars

\* The loop threads that are inside schedule.run_pending()
InRunPending == {t \in 1..Len(sched.threads) : sched.threads[t] = "run_pending"}

\* C39: for any sequence of start and stop calls, at most one loop thread is
\* executing run_pending at any time; a start after a stop does not leave the
\* loop thread of before running next to the new one.
C39_OneLoopThread == Cardinality(InRunPending) <= 1

============================================================================
